---------------------------- MODULE Spec2Model ----------------------------
(***************************************************************************)
(* A model of emersion/go-maildir (src/maildir.go).                        *)
(*                                                                         *)
(* Strings are sequences of Unicode code points (integers).  A directory   *)
(* is a function from the basenames it holds to inode numbers, and the     *)
(* content of a file is the byte sequence stored under its inode.          *)
(*                                                                         *)
(* Specifications:                                                         *)
(*   SpecCodec   formatBasename / parseBasename applied to bounded inputs   *)
(*   SpecKeys    goroutines of one process calling newKey concurrently     *)
(*   SpecDeliver deliverers (NewDelivery, Dir.Create) interleaved with a   *)
(*               reader that promotes new/ to cur/                         *)
(*   Spec        the single reader working on a mailbox that other         *)
(*               programs have written to                                  *)
(***************************************************************************)
EXTENDS Integers, Sequences, FiniteSets, TLC

(***************************************************************************)
(* Bounds of the model.                                                    *)
(***************************************************************************)
MaxKeyLen == 2
MaxCodecFlags == 3
MaxTime == 1
RandLen == 1
NumGoroutines == 2
KeysPerGoroutine == 2
NumDeliverers == 2
MaxBody == 2
MaxHandles == 2
MaxInitNew == 2
MaxInitCur == 1
MaxLookupFiles == 3
MaxWalkFiles == 3
MaxReads == 2
MaxCopies == 1
MaxCopySources == 2
MaxNameLen == 6
ClockStep == 12
MaxAge == 48
MaxCountNew == 3

(***************************************************************************)
(* Characters.                                                             *)
(***************************************************************************)
separator == 58
Comma == 44
HiddenMarker == 46
GenExperimental == 49
GenStandard == 50
FlagPassed == 80
FlagReplied == 82
FlagSeen == 83
FlagTrashed == 84
FlagDraft == 68
FlagFlagged == 70
Star == 42
LBracket == 91
RBracket == 93
LetterA == 97
LetterB == 98
LetterC == 99
EAcute == 233
Utf8Limit == 128

\* The value a call leaves behind when it panics instead of returning.
Panic == <<-1>>

(***************************************************************************)
(* Go strings are byte sequences: len(s) and s[i] count UTF-8 bytes while   *)
(* []rune(s) and range count code points.                                  *)
(***************************************************************************)
Utf8(c) == IF c < Utf8Limit THEN <<c>> ELSE <<192 + (c \div 64), 128 + (c % 64)>>

RECURSIVE Bytes(_)
Bytes(s) == IF s = <<>> THEN <<>> ELSE Utf8(Head(s)) \o Bytes(Tail(s))

RECURSIVE Insert(_, _)
Insert(x, s) ==
    IF s = <<>> THEN <<x>>
    ELSE IF x <= Head(s) THEN <<x>> \o s
    ELSE <<Head(s)>> \o Insert(x, Tail(s))

\* sort.Sort(flagList(flags)): ascending by code point, duplicates kept.
RECURSIVE SortFlags(_)
SortFlags(s) == IF s = <<>> THEN <<>> ELSE Insert(Head(s), SortFlags(Tail(s)))

\* strings.FieldsFunc(s, r == separator): the maximal runs of non-separator
\* characters, in order; empty fields are dropped.
RECURSIVE FieldsFrom(_, _)
FieldsFrom(s, cur) ==
    IF s = <<>> THEN (IF cur = <<>> THEN <<>> ELSE <<cur>>)
    ELSE IF Head(s) = separator
         THEN (IF cur = <<>> THEN <<>> ELSE <<cur>>) \o FieldsFrom(Tail(s), <<>>)
         ELSE FieldsFrom(Tail(s), Append(cur, Head(s)))

FieldsFunc(s) == FieldsFrom(s, <<>>)

\* strings.Cut(s, separator): the part before the first separator, or all of s.
RECURSIVE CutBefore(_)
CutBefore(s) ==
    IF s = <<>> \/ Head(s) = separator THEN <<>>
    ELSE <<Head(s)>> \o CutBefore(Tail(s))

NoErr == [kind |-> "nil"]
MailfileError(name) == [kind |-> "MailfileError", Name |-> name]
FlagError(info, exp) == [kind |-> "FlagError", Info |-> info, Experimental |-> exp]
KeyError(key, n) == [kind |-> "KeyError", Key |-> key, N |-> n]
\* The *PathError of a system call on a name that does not exist.
PathError == [kind |-> "ENOENT"]

ParseFlags(info) == SortFlags(SubSeq(info, 3, Len(info)))

\* parseBasename with the generation digit examined before the shape of info.
parseBasenameExperimentalFirst(basename) ==
    LET split == FieldsFunc(basename) IN
    IF Len(split) < 2
    THEN [key |-> <<>>, flags |-> <<>>, err |-> MailfileError(basename)]
    ELSE LET key == split[1]
             info == split[2]
             b == Bytes(info)
         IN IF Len(b) >= 1 /\ b[1] = GenExperimental
            THEN [key |-> <<>>, flags |-> <<>>, err |-> FlagError(info, TRUE)]
            ELSE IF Len(b) < 2 \/ b[2] # Comma \/ b[1] # GenStandard
            THEN [key |-> <<>>, flags |-> <<>>, err |-> FlagError(info, FALSE)]
            ELSE [key |-> key, flags |-> ParseFlags(info), err |-> NoErr]

parseBasename(basename) ==
    LET split == FieldsFunc(basename) IN
    IF Len(split) < 2
    THEN [key |-> <<>>, flags |-> <<>>, err |-> MailfileError(basename)]
    ELSE LET key == split[1]
             info == split[2]
             b == Bytes(info)
         IN IF Len(b) < 2 \/ b[2] # Comma
            THEN [key |-> <<>>, flags |-> <<>>, err |-> FlagError(info, FALSE)]
            ELSE IF b[1] = GenExperimental
            THEN [key |-> <<>>, flags |-> <<>>, err |-> FlagError(info, TRUE)]
            ELSE IF b[1] # GenStandard
            THEN [key |-> <<>>, flags |-> <<>>, err |-> FlagError(info, FALSE)]
            ELSE [key |-> key, flags |-> ParseFlags(info), err |-> NoErr]

\* The loop of formatBasename over the sorted flags.  The last character of
\* info is read as []rune(info)[len(info)-1]: a rune index computed from the
\* byte length, which lies outside the rune slice once info holds a
\* multi-byte character.
RECURSIVE AppendFlags(_, _)
AppendFlags(info, fl) ==
    IF fl = <<>> THEN info
    ELSE IF Len(Bytes(info)) > Len(info) THEN Panic
    ELSE IF info[Len(Bytes(info))] # Head(fl)
         THEN AppendFlags(Append(info, Head(fl)), Tail(fl))
         ELSE AppendFlags(info, Tail(fl))

FormatInfo(flags) == AppendFlags(<<GenStandard, Comma>>, SortFlags(flags))

formatBasename(key, flags) ==
    LET info == FormatInfo(flags) IN
    IF info = Panic THEN Panic ELSE key \o <<separator>> \o info

\* canonical(F): ascending by character code, duplicates removed.
RECURSIVE Dedup(_)
Dedup(s) ==
    IF Len(s) < 2 THEN s
    ELSE IF s[1] = s[2] THEN Dedup(Tail(s))
    ELSE <<Head(s)>> \o Dedup(Tail(s))

Canonical(flags) == Dedup(SortFlags(flags))

HasSeparator(s) == \E i \in 1..Len(s) : s[i] = separator

(***************************************************************************)
(* newKey: fmt.Sprintf("%d.%d%d%x.%s", unix time, pid, counter, random     *)
(* bytes, escaped host name).                                              *)
(***************************************************************************)
InitialId == 10000
Slash == 47
Backslash == 92
Digit0 == 48
HexLetterBase == 87
LetterH == 104

RECURSIVE Decimal(_)
Decimal(n) ==
    IF n < 10 THEN <<Digit0 + n>>
    ELSE Append(Decimal(n \div 10), Digit0 + (n % 10))

HexDigit(n) == IF n < 10 THEN Digit0 + n ELSE HexLetterBase + n

RECURSIVE Hex(_)
Hex(bs) ==
    IF bs = <<>> THEN <<>>
    ELSE <<HexDigit(Head(bs) \div 16), HexDigit(Head(bs) % 16)>> \o Hex(Tail(bs))

\* strings.Replace(host, "/", `\057`, -1) then
\* strings.Replace(host, string(separator), `\072`, -1).
RECURSIVE EscapeHost(_)
EscapeHost(h) ==
    IF h = <<>> THEN <<>>
    ELSE IF Head(h) = Slash
         THEN <<Backslash, Digit0, Digit0 + 5, Digit0 + 7>> \o EscapeHost(Tail(h))
    ELSE IF Head(h) = separator
         THEN <<Backslash, Digit0, Digit0 + 7, Digit0 + 2>> \o EscapeHost(Tail(h))
    ELSE <<Head(h)>> \o EscapeHost(Tail(h))

KeyStringNoCounter(t, pid, counter, bs, host) ==
    Decimal(t) \o <<HiddenMarker>> \o Decimal(pid) \o Hex(bs)
        \o <<HiddenMarker>> \o EscapeHost(host)

KeyString(t, pid, counter, bs, host) ==
    Decimal(t) \o <<HiddenMarker>> \o Decimal(pid) \o Decimal(counter) \o Hex(bs)
        \o <<HiddenMarker>> \o EscapeHost(host)

\* atomic.AddInt64(&id, 1): the new value.
AddInt64(v) == v + 1

\* The processes that use the mailbox.  Processes that run at the same time
\* on one host have different pids; process 2 runs on another host.
Procs == {1, 2}
Getpid(p) == 7
Hostname(p) == IF p = 1 THEN <<LetterH>> ELSE <<LetterH, separator>>

Times == 1..MaxTime
RandBytes == {0, 171}
RandVals == [1..RandLen -> RandBytes]

(***************************************************************************)
(* Sequences over a set, up to a length.                                   *)
(***************************************************************************)
SeqsUpTo(S, n) == UNION {[1..m -> S] : m \in 0..n}

(***************************************************************************)
(* The file system.  A path is a directory and a basename; a directory is  *)
(* named by its mailbox and one of tmp, new, cur.                          *)
(***************************************************************************)
Mailboxes == {"A"}
\* The mailboxes a message can be moved or copied to.
Boxes == {"A", "B"}
Tmp(mb) == <<mb, "tmp">>
New(mb) == <<mb, "new">>
Cur(mb) == <<mb, "cur">>
DirPaths == UNION {{Tmp(mb), New(mb), Cur(mb)} : mb \in Boxes}
Path(dir, base) == [dir |-> dir, base |-> base]
NoPath == Path(<<>>, <<>>)

Exists(f, path) == path.dir \in DOMAIN f /\ path.base \in DOMAIN f[path.dir]

Link(dir, name, ino) ==
    [n \in (DOMAIN dir) \cup {name} |-> IF n = name THEN ino ELSE dir[n]]

Unlink(dir, name) == [n \in (DOMAIN dir) \ {name} |-> dir[n]]

OsRenameKeepsSource(f, from, to) ==
    [f EXCEPT ![to.dir] = Link(@, to.base, f[from.dir][from.base])]

\* os.Rename(from, to) when from exists: the entry moves, replacing whatever
\* was at the destination name.
OsRename(f, from, to) ==
    LET ino == f[from.dir][from.base]
        f1 == [f EXCEPT ![from.dir] = Unlink(@, from.base)]
    IN [f1 EXCEPT ![to.dir] = Link(@, to.base, ino)]

OsRemoveNothing(f, path) == f

\* os.Remove(path) when path exists.
OsRemove(f, path) == [f EXCEPT ![path.dir] = Unlink(@, path.base)]

EmptyFs == [d \in DirPaths |-> <<>>]

VARIABLES
    arg,            \* the input of the pure function under check
    res,            \* what has been computed from it so far
    id,             \* the key counter of each process (var id int64)
    generated,      \* the keys newKey has returned to the goroutines
    fs,             \* directory path -> (basename -> inode)
    data,           \* inode -> content
    age,            \* inode -> hours since its last modification
    del,            \* the Delivery / tmpMessage writers
    handles,        \* the *Message values the reader holds
    ret,            \* what the reader's last call returned
    readdirChunk    \* var readdirChunk

vars == <<arg, res, id, generated, fs, data, age, del, handles, ret, readdirChunk>>

pureVars == <<arg, res>>
keyVars == <<id, generated>>
boxVars == <<fs, data, age, del, handles, ret, readdirChunk>>

DefaultReaddirChunk == 4096
NoRet == [op |-> "none", outcome |-> "returned"]

PureIdle == arg = <<>> /\ res = <<>>
KeysIdle == id = [p \in Procs |-> InitialId] /\ generated = <<>>
BoxIdle ==
    /\ fs = EmptyFs
    /\ data = <<>>
    /\ age = [i \in DOMAIN data |-> 0]
    /\ del = <<>>
    /\ handles = <<>>
    /\ ret = NoRet
    /\ readdirChunk = DefaultReaddirChunk

(***************************************************************************)
(* SpecCodec: encode a (key, flags) pair, then decode the basename.        *)
(***************************************************************************)
KeyChars == {LetterA, HiddenMarker}
FlagChars == {Comma, separator, FlagFlagged, FlagSeen, FlagTrashed, LetterA, EAcute}
CodecKeys == SeqsUpTo(KeyChars, MaxKeyLen)
CodecFlagLists == SeqsUpTo(FlagChars, MaxCodecFlags)

InitCodec ==
    /\ arg \in [key : CodecKeys, flags : CodecFlagLists]
    /\ res = [stage |-> "input"]
    /\ KeysIdle
    /\ BoxIdle

Encode ==
    /\ res.stage = "input"
    /\ res' = [stage |-> "encoded", basename |-> formatBasename(arg.key, arg.flags)]
    /\ UNCHANGED <<arg, keyVars, boxVars>>

Decode ==
    /\ res.stage = "encoded"
    /\ res.basename # Panic
    /\ res' = [stage |-> "decoded", basename |-> res.basename,
               parsed |-> parseBasename(res.basename)]
    /\ UNCHANGED <<arg, keyVars, boxVars>>

NextCodec == Encode \/ Decode

SpecCodec == InitCodec /\ [][NextCodec]_vars

(***************************************************************************)
(* SpecKeys: the goroutines of process 1 call newKey concurrently.  The    *)
(* only shared state newKey touches is the counter, in one atomic add.     *)
(***************************************************************************)
Goroutines == 1..NumGoroutines

newKey(p, t, bs) == KeyString(t, Getpid(p), AddInt64(id[p]), bs, Hostname(p))

InitKeys ==
    /\ PureIdle
    /\ KeysIdle
    /\ BoxIdle

GenerateKey(g) ==
    /\ Cardinality({i \in 1..Len(generated) : generated[i].g = g}) < KeysPerGoroutine
    /\ \E t \in Times, bs \in RandVals :
          generated' = Append(generated,
                              [g |-> g, t |-> t, bs |-> bs, key |-> newKey(1, t, bs)])
    /\ id' = [id EXCEPT ![1] = AddInt64(@)]
    /\ UNCHANGED <<pureVars, boxVars>>

NextKeys == \E g \in Goroutines : GenerateKey(g)

SpecKeys == InitKeys /\ [][NextKeys]_vars

(***************************************************************************)
(* Directory listings.  Readdirnames returns the names in an order the     *)
(* file system chooses: any ordering of the names present.                 *)
(***************************************************************************)
Perms(S) ==
    {f \in [1..Cardinality(S) -> S] : \A i, j \in 1..Cardinality(S) : i # j => f[i] # f[j]}

Min(a, b) == IF a < b THEN a ELSE b

\* f.Readdirnames(n) on a directory stream at position pos of the listing.
\* n > 0: at most n names, io.EOF once none is left.  n <= 0: all remaining
\* names and a nil error, also when none is left.
Readdirnames(listing, pos, n) ==
    IF n > 0
    THEN IF pos > Len(listing)
         THEN [names |-> <<>>, err |-> "EOF", pos |-> pos]
         ELSE [names |-> SubSeq(listing, pos, Min(pos + n - 1, Len(listing))),
               err |-> "nil", pos |-> Min(pos + n - 1, Len(listing)) + 1]
    ELSE [names |-> SubSeq(listing, pos, Len(listing)), err |-> "nil",
          pos |-> Len(listing) + 1]

(***************************************************************************)
(* Messages.                                                               *)
(***************************************************************************)
Message(filename, key, flags) == [filename |-> filename, key |-> key, flags |-> flags]
NoMsg == Message(NoPath, <<>>, <<>>)

\* Dir.newMessage
newMessage(dir, basename) ==
    LET p == parseBasename(basename) IN
    IF p.err # NoErr THEN [err |-> p.err, msg |-> NoMsg]
    ELSE [err |-> NoErr, msg |-> Message(Path(dir, basename), p.key, p.flags)]

Range(s) == {s[i] : i \in 1..Len(s)}
FirstN(s, n) == IF Len(s) <= n THEN s ELSE SubSeq(s, 1, n)
LastN(s, n) == IF Len(s) <= n THEN s ELSE SubSeq(s, Len(s) - n + 1, Len(s))

ReaderAlive == ret.outcome = "returned"

(***************************************************************************)
(* Dir.Unseen                                                              *)
(***************************************************************************)
\* The inner loop over one batch of names.  st = [fs, msgs, outcome, err].
RECURSIVE UnseenBatch(_, _, _)
UnseenBatch(mb, names, st) ==
    IF names = <<>> THEN st
    ELSE LET n == Head(names) IN
         IF n[1] = HiddenMarker THEN UnseenBatch(mb, Tail(names), st)
         ELSE LET key == CutBefore(n)
                  newBasename == key \o <<separator, GenStandard, Comma>>
                  from == Path(New(mb), n)
                  to == Path(Cur(mb), newBasename)
              IN IF ~Exists(st.fs, from)
                 THEN [st EXCEPT !.outcome = "returned", !.err = PathError]
                 ELSE LET f2 == OsRename(st.fs, from, to)
                          m == newMessage(Cur(mb), newBasename)
                      IN IF m.err # NoErr
                         THEN [st EXCEPT !.fs = f2, !.outcome = "panicked"]
                         ELSE UnseenBatch(mb, Tail(names),
                                  [st EXCEPT !.fs = f2, !.msgs = Append(@, m.msg)])

\* The outer loop: one Readdirnames(readdirChunk) per iteration until io.EOF.
\* An iteration that reads no name and no io.EOF leaves the loop where it
\* was: the call never returns.
RECURSIVE UnseenLoop(_, _, _, _, _)
UnseenLoop(mb, listing, pos, chunk, st) ==
    LET r == Readdirnames(listing, pos, chunk) IN
    IF r.err = "EOF" THEN [st EXCEPT !.outcome = "returned"]
    ELSE LET st2 == UnseenBatch(mb, r.names, st) IN
         IF st2.outcome # "running" THEN st2
         ELSE IF r.names = <<>> THEN [st2 EXCEPT !.outcome = "spinning"]
         ELSE UnseenLoop(mb, listing, r.pos, chunk, st2)

UnseenRun(mb, listing) ==
    UnseenLoop(mb, listing, 1, readdirChunk,
               [fs |-> fs, msgs |-> <<>>, outcome |-> "running", err |-> NoErr])

Unseen(mb) ==
    /\ ReaderAlive
    /\ \E listing \in Perms(DOMAIN fs[New(mb)]) :
          LET r == UnseenRun(mb, listing) IN
          /\ fs' = r.fs
          /\ ret' = [op |-> "Unseen", mb |-> mb, outcome |-> r.outcome,
                     msgs |-> r.msgs, err |-> r.err]
          /\ handles' = IF r.outcome = "returned"
                        THEN FirstN(r.msgs, MaxHandles)
                        ELSE handles
    /\ UNCHANGED <<pureVars, keyVars, data, age, del, readdirChunk>>

(***************************************************************************)
(* Message.SetFlags                                                        *)
(***************************************************************************)
HandleAfterRenameAlways(msg, renamed, newFilename, flags) ==
    Message(newFilename, msg.key, flags)

\* msg.filename and msg.flags are assigned only after os.Rename succeeded.
HandleAfterRename(msg, renamed, newFilename, flags) ==
    IF renamed THEN Message(newFilename, msg.key, flags) ELSE msg

SetFlags(h, flags) ==
    /\ ReaderAlive
    /\ h \in 1..Len(handles)
    /\ LET msg == handles[h]
           newBasename == formatBasename(msg.key, flags)
           p == parseBasename(newBasename)
           newFilename == Path(msg.filename.dir, newBasename)
           call == [op |-> "SetFlags", h |-> h, flags |-> flags]
       IN IF newBasename = Panic
          THEN /\ ret' = call @@ [outcome |-> "panicked", err |-> NoErr]
               /\ UNCHANGED <<fs, handles>>
          ELSE IF p.err # NoErr
          THEN /\ ret' = call @@ [outcome |-> "returned", err |-> p.err]
               /\ UNCHANGED <<fs, handles>>
          ELSE LET renamed == Exists(fs, msg.filename) IN
               /\ fs' = IF renamed THEN OsRename(fs, msg.filename, newFilename) ELSE fs
               /\ handles' = [handles EXCEPT ![h] =
                                 HandleAfterRename(msg, renamed, newFilename, p.flags)]
               /\ ret' = call @@ [outcome |-> "returned",
                                  err |-> IF renamed THEN NoErr ELSE PathError]
    /\ UNCHANGED <<pureVars, keyVars, data, age, del, readdirChunk>>

(***************************************************************************)
(* Message.Remove                                                          *)
(***************************************************************************)
MessageRemove(h) ==
    /\ ReaderAlive
    /\ h \in 1..Len(handles)
    /\ IF Exists(fs, handles[h].filename)
       THEN /\ fs' = OsRemove(fs, handles[h].filename)
            /\ ret' = [op |-> "Remove", h |-> h, outcome |-> "returned", err |-> NoErr]
       ELSE /\ fs' = fs
            /\ ret' = [op |-> "Remove", h |-> h, outcome |-> "returned", err |-> PathError]
    /\ UNCHANGED <<pureVars, keyVars, data, age, del, handles, readdirChunk>>

(***************************************************************************)
(* Dir.filenameGuesses / Dir.filenameByKey / Dir.MessageByKey              *)
(***************************************************************************)
filenameGuesses(mb, key) ==
    LET filename == key \o <<separator, GenStandard, Comma>>
        g(fl) == Path(Cur(mb), filename \o fl)
    IN << g(<<>>),
          g(<<FlagPassed>>), g(<<FlagReplied>>), g(<<FlagSeen>>), g(<<FlagDraft>>),
          g(<<FlagFlagged>>),
          g(<<FlagFlagged, FlagPassed>>), g(<<FlagFlagged, FlagPassed, FlagSeen>>),
          g(<<FlagFlagged, FlagReplied>>), g(<<FlagFlagged, FlagReplied, FlagSeen>>),
          g(<<FlagFlagged, FlagSeen>>),
          g(<<FlagPassed>>), g(<<FlagPassed, FlagSeen>>),
          g(<<FlagReplied, FlagSeen>>) >>

HasPrefixLoose(name, prefix) ==
    Len(name) >= Len(prefix) - 1
       /\ SubSeq(name, 1, Len(prefix) - 1) = SubSeq(prefix, 1, Len(prefix) - 1)

\* strings.HasPrefix(name, prefix)
HasPrefix(name, prefix) ==
    Len(name) >= Len(prefix) /\ SubSeq(name, 1, Len(prefix)) = prefix

FirstMatchNone(names, prefix) == 0

\* The index of the first name of the batch that has the prefix, or 0.
FirstMatch(names, prefix) ==
    IF \E i \in 1..Len(names) : HasPrefix(names[i], prefix)
    THEN CHOOSE i \in 1..Len(names) :
            /\ HasPrefix(names[i], prefix)
            /\ \A j \in 1..(i - 1) : ~HasPrefix(names[j], prefix)
    ELSE 0

\* The scan of cur/ in blocks of readdirChunk names.
RECURSIVE ScanLoop(_, _, _, _, _)
ScanLoop(mb, key, listing, pos, chunk) ==
    LET r == Readdirnames(listing, pos, chunk)
        i == FirstMatch(r.names, key \o <<separator>>)
    IN IF r.err = "EOF"
       THEN [outcome |-> "returned", filename |-> NoPath, err |-> KeyError(key, 0)]
       ELSE IF i # 0
       THEN [outcome |-> "returned", filename |-> Path(Cur(mb), r.names[i]), err |-> NoErr]
       ELSE IF r.names = <<>>
       THEN [outcome |-> "spinning", filename |-> NoPath, err |-> NoErr]
       ELSE ScanLoop(mb, key, listing, r.pos, chunk)

filenameByKey(mb, key, listing) ==
    LET guesses == filenameGuesses(mb, key)
        hits == {i \in 1..Len(guesses) : Exists(fs, guesses[i])}
    IN IF hits # {}
       THEN [outcome |-> "returned", err |-> NoErr,
             filename |-> guesses[CHOOSE i \in hits : \A j \in hits : i <= j]]
       ELSE ScanLoop(mb, key, listing, 1, readdirChunk)

MessageByKey(mb, key) ==
    /\ ReaderAlive
    /\ \E listing \in Perms(DOMAIN fs[Cur(mb)]) :
          LET r == filenameByKey(mb, key, listing)
              m == newMessage(r.filename.dir, r.filename.base)
              call == [op |-> "MessageByKey", mb |-> mb, key |-> key]
          IN IF r.outcome = "spinning"
             THEN /\ ret' = call @@ [outcome |-> "spinning", err |-> NoErr, msg |-> NoMsg]
                  /\ UNCHANGED handles
             ELSE IF r.err # NoErr
             THEN /\ ret' = call @@ [outcome |-> "returned", err |-> r.err, msg |-> NoMsg]
                  /\ UNCHANGED handles
             ELSE /\ ret' = call @@ [outcome |-> "returned", err |-> m.err, msg |-> m.msg]
                  /\ handles' = IF m.err = NoErr /\ m.msg \notin Range(handles)
                                THEN LastN(Append(handles, m.msg), MaxHandles)
                                ELSE handles
    /\ UNCHANGED <<pureVars, keyVars, fs, data, age, del, readdirChunk>>

(***************************************************************************)
(* Dir.Walk.  fn is a callback that fails at its failAt-th invocation (0:   *)
(* never); the ioErrAt-th Readdirnames of the call fails with an I/O error  *)
(* (0: none does).                                                         *)
(***************************************************************************)
IOError == [kind |-> "EIO"]
FnError == [kind |-> "fn"]

errorsJoinFirst(errs) ==
    IF errs = <<>> THEN NoErr ELSE [kind |-> "join", errs |-> <<errs[1]>>]

\* errors.Join: nil when there is no error to join.
errorsJoin(errs) ==
    IF errs = <<>> THEN NoErr ELSE [kind |-> "join", errs |-> errs]

\* The inner loop of Walk over one batch of names.
RECURSIVE WalkBatch(_, _, _, _)
WalkBatch(mb, names, failAt, st) ==
    IF names = <<>> THEN st
    ELSE LET n == Head(names) IN
         IF n[1] = HiddenMarker THEN WalkBatch(mb, Tail(names), failAt, st)
         ELSE LET m == newMessage(Cur(mb), n) IN
              IF m.err # NoErr
              THEN WalkBatch(mb, Tail(names), failAt,
                             [st EXCEPT !.formatErrs = Append(@, m.err)])
              ELSE LET called == Append(st.calls, m.msg) IN
                   IF Len(called) = failAt
                   THEN [st EXCEPT !.calls = called, !.outcome = "returned",
                                   !.err = errorsJoin(Append(st.formatErrs, FnError))]
                   ELSE WalkBatch(mb, Tail(names), failAt, [st EXCEPT !.calls = called])

RECURSIVE WalkLoop(_, _, _, _, _, _, _, _)
WalkLoop(mb, listing, pos, chunk, failAt, ioErrAt, reads, st) ==
    LET r == Readdirnames(listing, pos, chunk) IN
    IF reads + 1 = ioErrAt
    THEN [st EXCEPT !.outcome = "returned", !.err = IOError, !.reads = reads + 1]
    ELSE IF r.err = "EOF"
    THEN [st EXCEPT !.outcome = "returned", !.err = errorsJoin(st.formatErrs),
                    !.reads = reads + 1]
    ELSE LET st2 == WalkBatch(mb, r.names, failAt, [st EXCEPT !.reads = reads + 1]) IN
         IF st2.outcome # "running" THEN st2
         ELSE IF r.names = <<>> THEN [st2 EXCEPT !.outcome = "spinning"]
         ELSE WalkLoop(mb, listing, r.pos, chunk, failAt, ioErrAt, reads + 1, st2)

Walk(mb, failAt, ioErrAt) ==
    /\ ReaderAlive
    /\ \E listing \in Perms(DOMAIN fs[Cur(mb)]) :
          LET r == WalkLoop(mb, listing, 1, readdirChunk, failAt, ioErrAt, 0,
                            [calls |-> <<>>, formatErrs |-> <<>>, outcome |-> "running",
                             err |-> NoErr, reads |-> 0])
          IN ret' = [op |-> "Walk", mb |-> mb, failAt |-> failAt, ioErrAt |-> ioErrAt,
                     listing |-> listing, outcome |-> r.outcome, calls |-> r.calls,
                     reads |-> r.reads, err |-> r.err]
    /\ UNCHANGED <<pureVars, keyVars, fs, data, age, del, handles, readdirChunk>>

(***************************************************************************)
(* Deliveries: NewDelivery / Delivery.Write / Delivery.Close, and          *)
(* Dir.Create with the tmpMessage it returns.  Closing the descriptor is   *)
(* local to the writer; the rename is the one step of Close that other     *)
(* processes can see.                                                      *)
(***************************************************************************)
Deliverers == 1..NumDeliverers
BodyByte(d) == d
CreateFlagLists == {<<>>, <<FlagSeen, FlagFlagged>>}

IdleDel ==
    [pc |-> "idle", kind |-> "none", mb |-> "", key |-> <<>>, ino |-> 0,
     dest |-> NoPath, sent |-> <<>>, msg |-> NoMsg]

StageDirDirect(mb) == New(mb)

\* The directory NewDelivery and Create open the new file in.
StageDir(mb) == Tmp(mb)

\* os.OpenFile(name, O_CREATE|O_WRONLY|O_EXCL) succeeds only if the directory
\* exists and no entry has the name.
OpenExcl(f, path) == path.dir \in DOMAIN f /\ ~Exists(f, path)

NewDelivery(d, mb) ==
    /\ del[d].pc = "idle"
    /\ \E p \in Procs, t \in Times, bs \in RandVals :
          LET key == newKey(p, t, bs)
              filename == Path(StageDir(mb), key)
          IN /\ id' = [id EXCEPT ![p] = AddInt64(@)]
             /\ IF OpenExcl(fs, filename)
                THEN /\ data' = Append(data, <<>>)
                     /\ age' = Append(age, 0)
                     /\ fs' = [fs EXCEPT ![filename.dir] = Link(@, key, Len(data) + 1)]
                     /\ del' = [del EXCEPT ![d] =
                                  [IdleDel EXCEPT !.pc = "open", !.kind = "delivery",
                                                  !.mb = mb, !.key = key,
                                                  !.ino = Len(data) + 1]]
                ELSE /\ del' = [del EXCEPT ![d] =
                                  [IdleDel EXCEPT !.pc = "failed", !.kind = "delivery",
                                                  !.mb = mb, !.key = key]]
                     /\ UNCHANGED <<fs, data, age>>
    /\ UNCHANGED <<pureVars, generated, handles, ret, readdirChunk>>

Create(d, mb, flags) ==
    /\ del[d].pc = "idle"
    /\ \E p \in Procs, t \in Times, bs \in RandVals :
          LET key == newKey(p, t, bs)
              tmpFilename == Path(StageDir(mb), key)
              basename == formatBasename(key, flags)
              curFilename == Path(Cur(mb), basename)
          IN /\ id' = [id EXCEPT ![p] = AddInt64(@)]
             /\ IF ~OpenExcl(fs, tmpFilename)
                THEN /\ del' = [del EXCEPT ![d] =
                                  [IdleDel EXCEPT !.pc = "failed", !.kind = "create",
                                                  !.mb = mb, !.key = key]]
                     /\ UNCHANGED <<fs, data, age>>
                ELSE /\ data' = Append(data, <<>>)
                     /\ age' = Append(age, 0)
                     /\ fs' = [fs EXCEPT ![tmpFilename.dir] = Link(@, key, Len(data) + 1)]
                     /\ del' = [del EXCEPT ![d] =
                                  IF basename = Panic
                                  THEN [IdleDel EXCEPT !.pc = "panicked", !.kind = "create",
                                                       !.mb = mb, !.key = key,
                                                       !.ino = Len(data) + 1]
                                  ELSE [IdleDel EXCEPT !.pc = "open", !.kind = "create",
                                                       !.mb = mb, !.key = key,
                                                       !.ino = Len(data) + 1,
                                                       !.dest = curFilename,
                                                       !.msg = Message(curFilename, key,
                                                                       SortFlags(flags))]]
    /\ UNCHANGED <<pureVars, generated, handles, ret, readdirChunk>>

\* Delivery.Write and the Write of the *os.File embedded in tmpMessage.
Write(d) ==
    /\ del[d].pc = "open"
    /\ Len(del[d].sent) < MaxBody
    /\ data' = [data EXCEPT ![del[d].ino] = Append(@, BodyByte(d))]
    /\ age' = [age EXCEPT ![del[d].ino] = 0]
    /\ del' = [del EXCEPT ![d].sent = Append(@, BodyByte(d))]
    /\ UNCHANGED <<pureVars, keyVars, fs, handles, ret, readdirChunk>>

PublishTo(d, newfile) ==
    LET tmppath == Path(Tmp(del[d].mb), del[d].key) IN
    IF Exists(fs, tmppath) /\ newfile.dir \in DOMAIN fs
    THEN /\ fs' = OsRename(fs, tmppath, newfile)
         /\ del' = [del EXCEPT ![d].pc = "done"]
    ELSE /\ del' = [del EXCEPT ![d].pc = "closeFailed"]
         /\ UNCHANGED fs

DeliveryClose(d) ==
    /\ del[d].pc = "open"
    /\ del[d].kind = "delivery"
    /\ PublishTo(d, Path(New(del[d].mb), del[d].key))
    /\ UNCHANGED <<pureVars, keyVars, data, age, handles, ret, readdirChunk>>

tmpMessageClose(d) ==
    /\ del[d].pc = "open"
    /\ del[d].kind = "create"
    /\ PublishTo(d, del[d].dest)
    /\ UNCHANGED <<pureVars, keyVars, data, age, handles, ret, readdirChunk>>

\* Delivery.Abort on a delivery whose file is open: the file is closed and
\* its name removed from tmp/.  (On a closed file, file.Close fails and Abort
\* returns that error without touching anything.)
DeliveryAbort(d) ==
    /\ del[d].pc = "open"
    /\ del[d].kind = "delivery"
    /\ LET tmppath == Path(Tmp(del[d].mb), del[d].key) IN
       IF Exists(fs, tmppath)
       THEN /\ fs' = OsRemove(fs, tmppath)
            /\ del' = [del EXCEPT ![d].pc = "aborted"]
       ELSE /\ del' = [del EXCEPT ![d].pc = "abortFailed"]
            /\ UNCHANGED fs
    /\ UNCHANGED <<pureVars, keyVars, data, age, handles, ret, readdirChunk>>

(***************************************************************************)
(* Dir.Messages: Walk with a callback that collects the handles.           *)
(***************************************************************************)
Messages(mb) ==
    /\ ReaderAlive
    /\ \E listing \in Perms(DOMAIN fs[Cur(mb)]) :
          LET r == WalkLoop(mb, listing, 1, readdirChunk, 0, 0, 0,
                            [calls |-> <<>>, formatErrs |-> <<>>, outcome |-> "running",
                             err |-> NoErr, reads |-> 0])
          IN /\ ret' = [op |-> "Messages", mb |-> mb, outcome |-> r.outcome,
                        msgs |-> r.calls, err |-> r.err]
             /\ handles' = IF r.outcome = "returned" THEN FirstN(r.calls, MaxHandles)
                           ELSE handles
    /\ UNCHANGED <<pureVars, keyVars, fs, data, age, del, readdirChunk>>

(***************************************************************************)
(* Message.MoveTo                                                          *)
(***************************************************************************)
MoveTo(h, target) ==
    /\ ReaderAlive
    /\ h \in 1..Len(handles)
    /\ LET msg == handles[h]
           newFilename == Path(Cur(target), msg.filename.base)
           call == [op |-> "MoveTo", h |-> h, target |-> target, outcome |-> "returned"]
       IN IF Exists(fs, msg.filename)
          THEN /\ fs' = OsRename(fs, msg.filename, newFilename)
               /\ handles' = [handles EXCEPT ![h].filename = newFilename]
               /\ ret' = call @@ [err |-> NoErr]
          ELSE /\ ret' = call @@ [err |-> PathError]
               /\ UNCHANGED <<fs, handles>>
    /\ UNCHANGED <<pureVars, keyVars, data, age, del, readdirChunk>>

(***************************************************************************)
(* Message.CopyTo.  fault names the step of the copy that the file system  *)
(* fails: "copy" (io.Copy stops after part of the bytes), "close" (the     *)
(* Close of the staged file), or "none".                                   *)
(***************************************************************************)
CopyFaults == {"none", "copy", "close"}
ExistError == [kind |-> "EEXIST"]

ioCopyNothing(content) == <<>>

\* What io.Copy has written to the staged file when it returns nil.
ioCopy(content) == content

\* What io.Copy has written when it fails part-way.
PartOf(content) == IF content = <<>> THEN <<>> ELSE SubSeq(content, 1, Len(content) - 1)

\* The deferred dst.Close() of CopyTo on a staged file that is still open:
\* tmpMessage.Close closes it and renames it to its destination.
DeferredClose(f, staged, dest) == OsRename(f, staged, dest)

CopyTo(h, target, fault) ==
    /\ ReaderAlive
    /\ h \in 1..Len(handles)
    /\ id[1] < InitialId + MaxCopies
    /\ LET msg == handles[h]
           call == [op |-> "CopyTo", h |-> h, target |-> target, fault |-> fault]
       IN IF ~Exists(fs, msg.filename)
          THEN /\ ret' = call @@ [outcome |-> "returned", err |-> PathError, msg |-> NoMsg]
               /\ UNCHANGED <<fs, data, age, id>>
          ELSE \E t \in Times, bs \in RandVals :
                 LET key == newKey(1, t, bs)
                     tmpFilename == Path(Tmp(target), key)
                     basename == formatBasename(key, msg.flags)
                     curFilename == Path(Cur(target), basename)
                     content == data[fs[msg.filename.dir][msg.filename.base]]
                     ino == Len(data) + 1
                     staged == [fs EXCEPT ![tmpFilename.dir] = Link(@, key, ino)]
                 IN /\ id' = [id EXCEPT ![1] = AddInt64(@)]
                    /\ IF ~OpenExcl(fs, tmpFilename)
                       THEN /\ ret' = call @@ [outcome |-> "returned", err |-> ExistError,
                                               msg |-> NoMsg]
                            /\ UNCHANGED <<fs, data, age>>
                       ELSE IF basename = Panic
                       THEN /\ ret' = call @@ [outcome |-> "panicked", err |-> NoErr,
                                               msg |-> NoMsg]
                            /\ fs' = staged
                            /\ data' = Append(data, <<>>)
                            /\ age' = Append(age, 0)
                       ELSE IF fault = "copy"
                       THEN /\ ret' = call @@ [outcome |-> "returned", err |-> IOError,
                                               msg |-> NoMsg]
                            /\ fs' = DeferredClose(staged, tmpFilename, curFilename)
                            /\ data' = Append(data, PartOf(content))
                            /\ age' = Append(age, 0)
                       ELSE IF fault = "close"
                       THEN /\ ret' = call @@ [outcome |-> "returned", err |-> IOError,
                                               msg |-> NoMsg]
                            /\ fs' = staged
                            /\ data' = Append(data, ioCopy(content))
                            /\ age' = Append(age, 0)
                       ELSE /\ ret' = call @@ [outcome |-> "returned", err |-> NoErr,
                                               msg |-> Message(curFilename, key, msg.flags)]
                            /\ fs' = OsRename(staged, tmpFilename, curFilename)
                            /\ data' = Append(data, ioCopy(content))
                            /\ age' = Append(age, 0)
    /\ UNCHANGED <<pureVars, generated, del, handles, readdirChunk>>

(***************************************************************************)
(* SpecDeliver: an initialised mailbox, empty except possibly for a file   *)
(* an earlier run left in tmp/ under a name the key generator of process 1 *)
(* can produce.                                                            *)
(***************************************************************************)
OrphanNames ==
    {KeyString(t, Getpid(1), InitialId + 1, bs, Hostname(1)) : t \in Times, bs \in RandVals}
OrphanBody == <<0>>

InitDeliver ==
    /\ PureIdle
    /\ KeysIdle
    /\ \/ fs = EmptyFs /\ data = <<>>
       \/ \E k \in OrphanNames :
             /\ fs = [EmptyFs EXCEPT ![Tmp("A")] = Link(<<>>, k, 1)]
             /\ data = <<OrphanBody>>
    /\ age = [i \in DOMAIN data |-> 0]
    /\ del = [d \in Deliverers |-> IdleDel]
    /\ handles = <<>>
    /\ ret = NoRet
    /\ readdirChunk = DefaultReaddirChunk

NextDeliver ==
    \/ \E d \in Deliverers, mb \in Mailboxes : NewDelivery(d, mb)
    \/ \E d \in Deliverers, mb \in Mailboxes, flags \in CreateFlagLists : Create(d, mb, flags)
    \/ \E d \in Deliverers : Write(d)
    \/ \E d \in Deliverers : DeliveryClose(d)
    \/ \E d \in Deliverers : tmpMessageClose(d)
    \/ \E d \in Deliverers : DeliveryAbort(d)
    \/ \E mb \in Mailboxes : Unseen(mb)

SpecDeliver == InitDeliver /\ [][NextDeliver]_vars

(***************************************************************************)
(* Spec: the single reader on a mailbox that other programs delivered to   *)
(* and may have left in any shape.  File i of ForeignFiles has inode i and  *)
(* content <<i>>.                                                          *)
(***************************************************************************)
Info(fl) == <<separator, GenStandard, Comma>> \o fl

KeyA == <<LetterA>>
KeyB == <<LetterB>>
KeyC == <<LetterC>>

NewNames ==
    << KeyA,
       KeyA \o Info(<<FlagSeen>>),
       KeyB \o <<separator, LetterA>>,
       <<separator>> \o KeyA,
       <<HiddenMarker>> \o KeyA >>

CurNames ==
    << KeyA \o Info(<<FlagSeen>>),
       KeyC \o Info(<<>>),
       KeyC \o Info(<<FlagTrashed>>),
       KeyC >>

ForeignInode(dir, name) ==
    IF dir = "new"
    THEN CHOOSE i \in 1..Len(NewNames) : NewNames[i] = name
    ELSE Len(NewNames) + (CHOOSE i \in 1..Len(CurNames) : CurNames[i] = name)

ForeignData == [i \in 1..(Len(NewNames) + Len(CurNames)) |-> <<i>>]

SubsetsUpTo(S, n) == {T \in SUBSET S : Cardinality(T) <= n}

FlagInputs ==
    {<<>>, <<FlagSeen, FlagFlagged>>, <<FlagSeen, FlagSeen>>, <<Comma>>}

LookupKeys == {KeyA, KeyB, KeyC}

Init ==
    /\ PureIdle
    /\ KeysIdle
    /\ \E N \in SubsetsUpTo(Range(NewNames), MaxInitNew),
          C \in SubsetsUpTo(Range(CurNames), MaxInitCur) :
          fs = [EmptyFs EXCEPT ![New("A")] = [n \in N |-> ForeignInode("new", n)],
                               ![Cur("A")] = [n \in C |-> ForeignInode("cur", n)]]
    /\ data = ForeignData
    /\ age = [i \in DOMAIN data |-> 0]
    /\ del = <<>>
    /\ handles = <<>>
    /\ ret = NoRet
    /\ readdirChunk = DefaultReaddirChunk

Next ==
    \/ \E mb \in Mailboxes : Unseen(mb)
    \/ \E h \in 1..MaxHandles, flags \in FlagInputs : SetFlags(h, flags)
    \/ \E mb \in Mailboxes, key \in LookupKeys : MessageByKey(mb, key)
    \/ \E h \in 1..MaxHandles : MessageRemove(h)

Spec == Init /\ [][Next]_vars

(***************************************************************************)
(* SpecLookup: TestDifferentSizesOfReaddirChunks sets readdirChunk to      *)
(* every value from 0 to the number of files + 1 and looks keys up.        *)
(***************************************************************************)
LookupNames ==
    { KeyA \o Info(<<FlagPassed, FlagReplied>>),
      KeyA \o Info(<<FlagTrashed>>),
      KeyA \o Info(<<FlagSeen, FlagFlagged>>),
      KeyA \o Info(<<>>),
      KeyA \o Info(<<FlagSeen>>),
      KeyA \o KeyA \o Info(<<FlagPassed, FlagReplied>>),
      KeyC \o Info(<<FlagDraft, FlagTrashed>>),
      KeyC,
      <<HiddenMarker>> \o KeyA }

InitLookup ==
    /\ PureIdle
    /\ KeysIdle
    /\ \E C \in SubsetsUpTo(LookupNames, MaxLookupFiles) :
          /\ fs = [EmptyFs EXCEPT ![Cur("A")] = [n \in C |-> 1]]
          /\ readdirChunk \in 0..(Cardinality(C) + 1)
    /\ data = << <<1>> >>
    /\ age = [i \in DOMAIN data |-> 0]
    /\ del = <<>>
    /\ handles = <<>>
    /\ ret = NoRet

NextLookup == \E mb \in Mailboxes, key \in LookupKeys : MessageByKey(mb, key)

SpecLookup == InitLookup /\ [][NextLookup]_vars

(***************************************************************************)
(* SpecWalk: Walk over a cur/ that holds well-formed, malformed and hidden *)
(* names.                                                                  *)
(***************************************************************************)
WalkNames ==
    { KeyA \o Info(<<FlagSeen>>),
      KeyC \o Info(<<>>),
      KeyC,
      KeyC \o <<separator, GenExperimental, Comma, FlagSeen>>,
      KeyB \o <<separator, LetterA>>,
      <<HiddenMarker>> \o KeyA }

InitWalk ==
    /\ PureIdle
    /\ KeysIdle
    /\ \E C \in SubsetsUpTo(WalkNames, MaxWalkFiles) :
          fs = [EmptyFs EXCEPT ![Cur("A")] = [n \in C |-> 1]]
    /\ data = << <<1>> >>
    /\ age = [i \in DOMAIN data |-> 0]
    /\ del = <<>>
    /\ handles = <<>>
    /\ ret = NoRet
    /\ readdirChunk = DefaultReaddirChunk

NextWalk ==
    \E mb \in Mailboxes, failAt \in 0..MaxWalkFiles, ioErrAt \in 0..MaxReads :
       Walk(mb, failAt, ioErrAt)

SpecWalk == InitWalk /\ [][NextWalk]_vars

(***************************************************************************)
(* SpecCopy: the reader of mailbox A lists its messages and moves, copies  *)
(* or removes them; mailbox B may already hold a file named like one of A. *)
(* File i has the content <<i, i>>.                                        *)
(***************************************************************************)
CopySources ==
    << KeyA \o Info(<<FlagSeen>>),
       KeyC \o Info(<<>>),
       KeyC \o Info(<<FlagSeen, FlagSeen>>),
       KeyB \o Info(<<FlagSeen, FlagFlagged>>) >>

CopyInode(name) == CHOOSE i \in 1..Len(CopySources) : CopySources[i] = name

InitCopy ==
    /\ PureIdle
    /\ KeysIdle
    /\ \E S \in SubsetsUpTo(Range(CopySources), MaxCopySources),
          B \in SUBSET {CopySources[1]} :
          fs = [EmptyFs EXCEPT ![Cur("A")] = [n \in S |-> CopyInode(n)],
                               ![Cur("B")] = [n \in B |-> Len(CopySources) + 1]]
    /\ data = [i \in 1..(Len(CopySources) + 1) |-> <<i, i>>]
    /\ age = [i \in DOMAIN data |-> 0]
    /\ del = <<>>
    /\ handles = <<>>
    /\ ret = NoRet
    /\ readdirChunk = DefaultReaddirChunk

NextCopy ==
    \/ \E mb \in Mailboxes : Messages(mb)
    \/ \E h \in 1..MaxHandles, target \in Boxes : MoveTo(h, target)
    \/ \E h \in 1..MaxHandles, target \in Boxes, fault \in CopyFaults : CopyTo(h, target, fault)
    \/ \E h \in 1..MaxHandles : MessageRemove(h)

SpecCopy == InitCopy /\ [][NextCopy]_vars

(***************************************************************************)
(* SpecCreate: one program creates a message with Dir.Create, writes it,   *)
(* closes the writer, and looks its key up (TestDir_Create).               *)
(***************************************************************************)
Creators == {1}

NextCreate ==
    \/ \E d \in Creators, mb \in Mailboxes, flags \in FlagInputs : Create(d, mb, flags)
    \/ \E d \in Creators : Write(d)
    \/ \E d \in Creators : tmpMessageClose(d)
    \/ \E d \in Creators : del[d].pc \in {"open", "done"} /\ MessageByKey(del[d].mb, del[d].key)

SpecCreate == InitDeliver /\ [][NextCreate]_vars

(***************************************************************************)
(* SpecParse: parseBasename applied to an arbitrary directory entry name.  *)
(***************************************************************************)
ParseChars == {separator, Comma, GenExperimental, GenStandard, FlagFlagged, FlagSeen, EAcute}
ParseNames == SeqsUpTo(ParseChars, MaxNameLen)

InitParse ==
    /\ arg \in [basename : ParseNames]
    /\ res = [stage |-> "input"]
    /\ KeysIdle
    /\ BoxIdle

Parse ==
    /\ res.stage = "input"
    /\ res' = [stage |-> "parsed", parsed |-> parseBasename(arg.basename)]
    /\ UNCHANGED <<arg, keyVars, boxVars>>

NextParse == Parse

SpecParse == InitParse /\ [][NextParse]_vars

(***************************************************************************)
(* SpecInit: Dir.Init on a path that is free or holds a directory with any *)
(* of the three subdirectories, called at any moment while messages are    *)
(* being delivered.  A directory exists when its path is in DOMAIN fs; the *)
(* parent of the mailbox root always exists.                               *)
(***************************************************************************)
Root(mb) == <<mb>>
Subdirs(mb) == {Tmp(mb), New(mb), Cur(mb)}
EExist == [kind |-> "EEXIST"]

\* A file that is not a directory has the name: an entry of the listing of
\* the parent directory.
OccupiedByFile(f, name) ==
    /\ Len(name) > 1
    /\ Root(name[1]) \in DOMAIN f
    /\ name[Len(name)] \in DOMAIN f[Root(name[1])]

\* os.Mkdir(name, 0700): EEXIST when the name is taken, by a directory or by
\* any other file.
Mkdir(f, name) ==
    IF name \in DOMAIN f \/ OccupiedByFile(f, name) THEN [fs |-> f, err |-> EExist]
    ELSE IF Len(name) > 1 /\ Root(name[1]) \notin DOMAIN f
    THEN [fs |-> f, err |-> PathError]
    ELSE [fs |-> [dir \in (DOMAIN f) \cup {name} |-> IF dir = name THEN <<>> ELSE f[dir]],
          err |-> NoErr]

IsExistNever(err) == FALSE

\* os.IsExist(err)
IsExist(err) == err = EExist

\* The loop of Dir.Init over dirnames.
RECURSIVE InitLoop(_, _)
InitLoop(f, dirnames) ==
    IF dirnames = <<>> THEN [fs |-> f, err |-> NoErr]
    ELSE LET made == Mkdir(f, Head(dirnames)) IN
         IF made.err # NoErr /\ ~IsExist(made.err)
         THEN [fs |-> made.fs, err |-> made.err]
         ELSE InitLoop(made.fs, Tail(dirnames))

DirInit(mb) ==
    /\ LET r == InitLoop(fs, <<Root(mb), Tmp(mb), New(mb), Cur(mb)>>) IN
          /\ fs' = r.fs
          /\ ret' = [op |-> "Init", mb |-> mb, found |-> fs, outcome |-> "returned",
                     err |-> r.err]
    /\ UNCHANGED <<pureVars, keyVars, data, age, del, handles, readdirChunk>>

InitInit ==
    /\ PureIdle
    /\ KeysIdle
    /\ \/ fs = <<>>
       \/ \E present \in SUBSET Subdirs("A") :
             fs = [dir \in {Root("A")} \cup present |-> <<>>]
    /\ data = <<>>
    /\ age = <<>>
    /\ del = [d \in Deliverers |-> IdleDel]
    /\ handles = <<>>
    /\ ret = NoRet
    /\ readdirChunk = DefaultReaddirChunk

NextInit ==
    \/ \E mb \in Mailboxes : DirInit(mb)
    \/ \E d \in Deliverers, mb \in Mailboxes : NewDelivery(d, mb)
    \/ \E d \in Deliverers : Write(d)
    \/ \E d \in Deliverers : DeliveryClose(d)

SpecInit == InitInit /\ [][NextInit]_vars

(***************************************************************************)
(* Dir.Clean.  Time is counted in hours; what the model keeps of a file's  *)
(* modification time is its distance to the present, which stops growing   *)
(* at MaxAge.                                                              *)
(***************************************************************************)
Retention == 36

TooOldFromRetention(d) == d >= Retention

\* now.Sub(fi.ModTime()).Hours() > 36
TooOld(d) == d > Retention

\* The loop over the names of one Readdirnames batch: a name os.Stat cannot
\* find is skipped, a file older than the retention is removed.
RECURSIVE CleanBatch(_, _, _)
CleanBatch(mb, names, st) ==
    IF names = <<>> THEN st
    ELSE LET file == Path(Tmp(mb), Head(names)) IN
         IF ~Exists(st.fs, file) THEN CleanBatch(mb, Tail(names), st)
         ELSE IF TooOld(age[st.fs[file.dir][file.base]])
         THEN CleanBatch(mb, Tail(names), [st EXCEPT !.fs = OsRemove(@, file)])
         ELSE CleanBatch(mb, Tail(names), st)

RECURSIVE CleanLoop(_, _, _, _, _)
CleanLoop(mb, listing, pos, chunk, st) ==
    LET r == Readdirnames(listing, pos, chunk) IN
    IF r.err = "EOF" THEN [st EXCEPT !.outcome = "returned"]
    ELSE LET st2 == CleanBatch(mb, r.names, st) IN
         IF r.names = <<>> THEN [st2 EXCEPT !.outcome = "spinning"]
         ELSE CleanLoop(mb, listing, r.pos, chunk, st2)

Clean(mb) ==
    /\ ReaderAlive
    /\ \E listing \in Perms(DOMAIN fs[Tmp(mb)]) :
          LET r == CleanLoop(mb, listing, 1, readdirChunk,
                             [fs |-> fs, outcome |-> "running", err |-> NoErr])
          IN /\ fs' = r.fs
             /\ ret' = [op |-> "Clean", mb |-> mb, found |-> fs, outcome |-> r.outcome,
                        err |-> r.err]
    /\ UNCHANGED <<pureVars, keyVars, data, age, del, handles, readdirChunk>>

\* The clock advances by MaxAge hours or more.
Elapse ==
    /\ \E i \in DOMAIN age : age[i] < MaxAge
    /\ age' = [i \in DOMAIN age |-> MaxAge]
    /\ UNCHANGED <<pureVars, keyVars, fs, data, del, handles, ret, readdirChunk>>

\* The clock advances by ClockStep hours.
Tick ==
    /\ \E i \in DOMAIN age : age[i] < MaxAge
    /\ age' = [i \in DOMAIN age |-> Min(age[i] + ClockStep, MaxAge)]
    /\ UNCHANGED <<pureVars, keyVars, fs, data, del, handles, ret, readdirChunk>>

(***************************************************************************)
(* SpecClean: a mailbox with files of any age left in tmp/ and an old      *)
(* message in new/, a writer that delivers or creates one more message,    *)
(* the clock, and Clean.  SpecCleanFair adds that the clock keeps          *)
(* advancing and Clean keeps being called.                                 *)
(***************************************************************************)
CleanTmpNames == {KeyA, KeyB}
CleanInode(name) == IF name = KeyA THEN 1 ELSE IF name = KeyB THEN 2 ELSE 3
Cleaners == {1}

InitClean ==
    /\ PureIdle
    /\ KeysIdle
    /\ \E left \in SUBSET CleanTmpNames, published \in SUBSET {KeyC} :
          fs = [EmptyFs EXCEPT ![Tmp("A")] = [n \in left |-> CleanInode(n)],
                               ![New("A")] = [n \in published |-> CleanInode(n)]]
    /\ data = [i \in 1..3 |-> <<i>>]
    /\ age = [i \in DOMAIN data |-> 0]
    /\ del = [d \in Deliverers |-> IdleDel]
    /\ handles = <<>>
    /\ ret = NoRet
    /\ readdirChunk = DefaultReaddirChunk

NextClean ==
    \/ Tick
    \/ \E mb \in Mailboxes : Clean(mb)
    \/ \E d \in Cleaners, mb \in Mailboxes : NewDelivery(d, mb)
    \/ \E d \in Cleaners, mb \in Mailboxes, flags \in CreateFlagLists : Create(d, mb, flags)
    \/ \E d \in Cleaners : Write(d)
    \/ \E d \in Cleaners : DeliveryClose(d)
    \/ \E d \in Cleaners : tmpMessageClose(d)
    \/ \E d \in Cleaners : DeliveryAbort(d)

SpecClean == InitClean /\ [][NextClean]_vars

SpecCleanFair ==
    /\ SpecClean
    /\ WF_vars(Tick)
    /\ \A mb \in Mailboxes : WF_vars(Clean(mb))

(***************************************************************************)
(* Dir.UnseenCount and SpecCount: a reader that counts and promotes the    *)
(* entries other programs left in new/.                                    *)
(***************************************************************************)
CountAll(names) == Len(names)

\* The loop over the names of one batch: c++ for every name that does not
\* begin with '.'.
CountBatch(names) == Cardinality({i \in 1..Len(names) : names[i][1] # HiddenMarker})

RECURSIVE CountLoop(_, _, _, _)
CountLoop(listing, pos, chunk, st) ==
    LET r == Readdirnames(listing, pos, chunk) IN
    IF r.err = "EOF" THEN [st EXCEPT !.outcome = "returned"]
    ELSE IF r.names = <<>> THEN [st EXCEPT !.outcome = "spinning"]
    ELSE CountLoop(listing, r.pos, chunk, [st EXCEPT !.c = @ + CountBatch(r.names)])

UnseenCount(mb) ==
    /\ ReaderAlive
    /\ \E listing \in Perms(DOMAIN fs[New(mb)]) :
          LET r == CountLoop(listing, 1, readdirChunk, [c |-> 0, outcome |-> "running"])
          IN ret' = [op |-> "UnseenCount", mb |-> mb, outcome |-> r.outcome,
                     count |-> r.c, err |-> NoErr]
    /\ UNCHANGED <<pureVars, keyVars, fs, data, age, del, handles, readdirChunk>>

InitCount ==
    /\ PureIdle
    /\ KeysIdle
    /\ \E N \in SubsetsUpTo(Range(NewNames), MaxCountNew),
          C \in SubsetsUpTo(Range(CurNames), MaxInitCur) :
          fs = [EmptyFs EXCEPT ![New("A")] = [n \in N |-> ForeignInode("new", n)],
                               ![Cur("A")] = [n \in C |-> ForeignInode("cur", n)]]
    /\ data = ForeignData
    /\ age = [i \in DOMAIN data |-> 0]
    /\ del = <<>>
    /\ handles = <<>>
    /\ ret = NoRet
    /\ readdirChunk = DefaultReaddirChunk

NextCount ==
    \/ \E mb \in Mailboxes : UnseenCount(mb)
    \/ \E mb \in Mailboxes : Unseen(mb)

SpecCount == InitCount /\ [][NextCount]_vars

(***************************************************************************)
(* SpecAll: two initialised, empty mailboxes and every operation of the    *)
(* library on them, in any order: writers that deliver or create, a reader *)
(* that promotes, lists, flags, moves, copies and removes, the clock and   *)
(* Clean.                                                                  *)
(***************************************************************************)
AllFlagInputs == {<<FlagSeen>>}
Writers == {1}

InitAll ==
    /\ PureIdle
    /\ KeysIdle
    /\ fs = EmptyFs
    /\ data = <<>>
    /\ age = <<>>
    /\ del = [d \in Deliverers |-> IdleDel]
    /\ handles = <<>>
    /\ ret = NoRet
    /\ readdirChunk = DefaultReaddirChunk

NextAll ==
    \/ \E d \in Writers, mb \in Mailboxes : NewDelivery(d, mb)
    \/ \E d \in Writers, mb \in Mailboxes, flags \in CreateFlagLists : Create(d, mb, flags)
    \/ \E d \in Writers : Write(d)
    \/ \E d \in Writers : DeliveryClose(d)
    \/ \E d \in Writers : tmpMessageClose(d)
    \/ \E d \in Writers : DeliveryAbort(d)
    \/ \E mb \in Mailboxes : Unseen(mb)
    \/ \E mb \in Mailboxes : Messages(mb)
    \/ \E h \in 1..MaxHandles, flags \in AllFlagInputs : SetFlags(h, flags)
    \/ \E h \in 1..MaxHandles : MessageRemove(h)
    \/ \E h \in 1..MaxHandles, target \in Boxes \ Mailboxes : MoveTo(h, target)
    \/ \E h \in 1..MaxHandles, target \in Boxes, fault \in CopyFaults : CopyTo(h, target, fault)
    \/ \E mb \in Mailboxes : Clean(mb)
    \/ Elapse

SpecAll == InitAll /\ [][NextAll]_vars

(***************************************************************************)
(* Message.Open, Message.Flags, Message.Filename, and SpecStale: a message *)
(* in cur/ that the reader has looked up twice, so that it holds two       *)
(* *Message values for the same file and each goes stale when the other    *)
(* renames or removes the file.                                            *)
(***************************************************************************)
MessageOpen(h) ==
    /\ ReaderAlive
    /\ h \in 1..Len(handles)
    /\ ret' = IF Exists(fs, handles[h].filename)
              THEN [op |-> "Open", h |-> h, outcome |-> "returned", err |-> NoErr,
                    content |-> data[fs[handles[h].filename.dir][handles[h].filename.base]]]
              ELSE [op |-> "Open", h |-> h, outcome |-> "returned", err |-> PathError,
                    content |-> <<>>]
    /\ UNCHANGED <<pureVars, keyVars, fs, data, age, del, handles, readdirChunk>>

MessageFlags(h) ==
    /\ ReaderAlive
    /\ h \in 1..Len(handles)
    /\ ret' = [op |-> "Flags", h |-> h, outcome |-> "returned", err |-> NoErr,
               flags |-> handles[h].flags]
    /\ UNCHANGED <<pureVars, keyVars, fs, data, age, del, handles, readdirChunk>>

MessageFilename(h) ==
    /\ ReaderAlive
    /\ h \in 1..Len(handles)
    /\ ret' = [op |-> "Filename", h |-> h, outcome |-> "returned", err |-> NoErr,
               filename |-> handles[h].filename]
    /\ UNCHANGED <<pureVars, keyVars, fs, data, age, del, handles, readdirChunk>>

StaleName == KeyA \o Info(<<>>)
StaleFlagInputs == {<<>>, <<FlagSeen>>}

InitStale ==
    /\ PureIdle
    /\ KeysIdle
    /\ fs = [EmptyFs EXCEPT ![Cur("A")] = Link(<<>>, StaleName, 1)]
    /\ data = << <<1>> >>
    /\ age = [i \in DOMAIN data |-> 0]
    /\ del = <<>>
    /\ handles = [h \in 1..MaxHandles |-> newMessage(Cur("A"), StaleName).msg]
    /\ ret = NoRet
    /\ readdirChunk = DefaultReaddirChunk

NextStale ==
    \/ \E h \in 1..MaxHandles, flags \in StaleFlagInputs : SetFlags(h, flags)
    \/ \E h \in 1..MaxHandles : MessageRemove(h)
    \/ \E h \in 1..MaxHandles, target \in Boxes : MoveTo(h, target)
    \/ \E h \in 1..MaxHandles, target \in Boxes : CopyTo(h, target, "none")
    \/ \E h \in 1..MaxHandles : MessageOpen(h)
    \/ \E h \in 1..MaxHandles : MessageFlags(h)
    \/ \E h \in 1..MaxHandles : MessageFilename(h)

SpecStale == InitStale /\ [][NextStale]_vars

(***************************************************************************)
(* SpecIllegal: TestIllegal.  A message is delivered, promoted and         *)
(* flagged; its file is then renamed, from outside the library, to its     *)
(* bare key, and the key is looked up.                                     *)
(***************************************************************************)
\* os.Rename(path, "test_illegal/cur/"+key)
RenameToBareKey(h) ==
    /\ h \in 1..Len(handles)
    /\ Exists(fs, handles[h].filename)
    /\ handles[h].filename.base # handles[h].key
    /\ fs' = OsRename(fs, handles[h].filename,
                      Path(handles[h].filename.dir, handles[h].key))
    /\ UNCHANGED <<pureVars, keyVars, data, age, del, handles, ret, readdirChunk>>

NextIllegal ==
    \/ \E d \in Writers, mb \in Mailboxes : NewDelivery(d, mb)
    \/ \E d \in Writers : Write(d)
    \/ \E d \in Writers : DeliveryClose(d)
    \/ \E mb \in Mailboxes : Unseen(mb)
    \/ \E h \in 1..MaxHandles, flags \in StaleFlagInputs : SetFlags(h, flags)
    \/ \E h \in 1..MaxHandles : RenameToBareKey(h)
    \/ \E h \in 1..MaxHandles : h \in 1..Len(handles) /\ MessageByKey("A", handles[h].key)
    \/ \E h \in 1..MaxHandles : MessageFlags(h)

SpecIllegal == InitAll /\ [][NextIllegal]_vars

(***************************************************************************)
(* SpecPromote: concurrent deliverers and the single reader, which only    *)
(* calls Unseen; SpecPromoteFair adds that the reader keeps calling it.    *)
(***************************************************************************)
NextPromote ==
    \/ \E d \in Deliverers, mb \in Mailboxes : NewDelivery(d, mb)
    \/ \E d \in Deliverers : Write(d)
    \/ \E d \in Deliverers : DeliveryClose(d)
    \/ \E d \in Deliverers : DeliveryAbort(d)
    \/ \E mb \in Mailboxes : Unseen(mb)

SpecPromote == InitAll /\ [][NextPromote]_vars

\* The reader calls Unseen again and again.  A call changes the mailbox
\* whenever new/ holds a name that is not hidden, so UnseenDue(mb) implies
\* ENABLED <<Unseen(mb)>>_vars, and the condition below is weak fairness of
\* Unseen(mb) written out with that enabling condition: it follows from
\* WF_vars(Unseen(mb)).
UnseenDue(mb) == ReaderAlive /\ \E n \in DOMAIN fs[New(mb)] : n[1] # HiddenMarker

SpecPromoteFair ==
    /\ SpecPromote
    /\ \A mb \in Mailboxes : ([]<>(~UnseenDue(mb))) \/ []<><<Unseen(mb)>>_vars

(***************************************************************************)
(* SpecTerminal: deliverers that call Close and Abort again on a Delivery  *)
(* whose file an earlier Close or Abort has closed, beside a reader.       *)
(***************************************************************************)
ErrClosed == [kind |-> "ErrClosed"]

FileCloseIdempotent(pc) == NoErr

\* d.file.Close(): an *os.File that is already closed returns os.ErrClosed.
FileClose(pc) == IF pc = "open" THEN NoErr ELSE ErrClosed

FileClosed(d) ==
    /\ del[d].kind = "delivery"
    /\ del[d].pc \in {"done", "aborted", "closeFailed", "abortFailed"}

\* Delivery.Close on a Delivery whose file is closed.
DeliveryCloseAgain(d) ==
    /\ FileClosed(d)
    /\ LET tmppath == Path(Tmp(del[d].mb), del[d].key)
           newfile == Path(New(del[d].mb), del[d].key)
           err == FileClose(del[d].pc)
       IN IF err # NoErr
          THEN /\ ret' = [op |-> "Delivery.Close", d |-> d, outcome |-> "returned",
                          err |-> err]
               /\ UNCHANGED fs
          ELSE IF Exists(fs, tmppath) /\ newfile.dir \in DOMAIN fs
          THEN /\ fs' = OsRename(fs, tmppath, newfile)
               /\ ret' = [op |-> "Delivery.Close", d |-> d, outcome |-> "returned",
                          err |-> NoErr]
          ELSE /\ ret' = [op |-> "Delivery.Close", d |-> d, outcome |-> "returned",
                          err |-> PathError]
               /\ UNCHANGED fs
    /\ UNCHANGED <<pureVars, keyVars, data, age, del, handles, readdirChunk>>

\* Delivery.Abort on a Delivery whose file is closed.
DeliveryAbortAgain(d) ==
    /\ FileClosed(d)
    /\ LET tmppath == Path(Tmp(del[d].mb), del[d].key)
           err == FileClose(del[d].pc)
       IN IF err # NoErr
          THEN /\ ret' = [op |-> "Delivery.Abort", d |-> d, outcome |-> "returned",
                          err |-> err]
               /\ UNCHANGED fs
          ELSE IF Exists(fs, tmppath)
          THEN /\ fs' = OsRemove(fs, tmppath)
               /\ ret' = [op |-> "Delivery.Abort", d |-> d, outcome |-> "returned",
                          err |-> NoErr]
          ELSE /\ ret' = [op |-> "Delivery.Abort", d |-> d, outcome |-> "returned",
                          err |-> PathError]
               /\ UNCHANGED fs
    /\ UNCHANGED <<pureVars, keyVars, data, age, del, handles, readdirChunk>>

NextTerminal ==
    \/ \E d \in Deliverers, mb \in Mailboxes : NewDelivery(d, mb)
    \/ \E d \in Deliverers : Write(d)
    \/ \E d \in Deliverers : DeliveryClose(d)
    \/ \E d \in Deliverers : DeliveryAbort(d)
    \/ \E d \in Deliverers : DeliveryCloseAgain(d)
    \/ \E d \in Deliverers : DeliveryAbortAgain(d)
    \/ \E mb \in Mailboxes : Unseen(mb)

SpecTerminal == InitAll /\ [][NextTerminal]_vars

(***************************************************************************)
(* SpecRace: two mutators hold a handle each to the same entry of cur/,    *)
(* obtained before either changes it, and call SetFlags.                   *)
(***************************************************************************)
RaceFlagInputs ==
    {<<>>, <<FlagSeen>>, <<FlagFlagged>>, <<FlagFlagged, FlagSeen>>, <<FlagTrashed>>,
     <<FlagSeen, FlagTrashed>>}

NextRace ==
    \/ \E h \in 1..MaxHandles, flags \in RaceFlagInputs : SetFlags(h, flags)
    \/ \E h \in 1..MaxHandles : MessageOpen(h)
    \/ \E h \in 1..MaxHandles : MessageFlags(h)
    \/ \E h \in 1..MaxHandles : MessageFilename(h)

SpecRace == InitStale /\ [][NextRace]_vars

(***************************************************************************)
(* SpecPrecise: lookups by key in a cur/ whose names have keys that are    *)
(* prefixes of one another or hold the characters '*', '[' and ']'.        *)
(***************************************************************************)
KeyAB == <<LetterA, LetterB>>
KeyStar == <<Star>>
KeyBracket == <<LBracket, LetterA, RBracket>>

PreciseKeys == {KeyA, KeyAB, KeyStar, KeyBracket}

PreciseNames ==
    { KeyA \o Info(<<FlagTrashed>>),
      KeyAB \o Info(<<>>),
      KeyAB \o Info(<<FlagTrashed>>),
      KeyStar \o Info(<<FlagTrashed>>),
      KeyBracket \o Info(<<FlagSeen>>),
      KeyA,
      KeyB \o Info(<<>>) }

InitPrecise ==
    /\ PureIdle
    /\ KeysIdle
    /\ \E C \in SubsetsUpTo(PreciseNames, MaxLookupFiles) :
          fs = [EmptyFs EXCEPT ![Cur("A")] = [n \in C |-> 1]]
    /\ readdirChunk = DefaultReaddirChunk
    /\ data = << <<1>> >>
    /\ age = [i \in DOMAIN data |-> 0]
    /\ del = <<>>
    /\ handles = <<>>
    /\ ret = NoRet

NextPrecise == \E mb \in Mailboxes, key \in PreciseKeys : MessageByKey(mb, key)

SpecPrecise == InitPrecise /\ [][NextPrecise]_vars

(***************************************************************************)
(* SpecInitFile: Dir.Init on a root directory that holds any of the three  *)
(* subdirectories and, under the names of the others, files that are not   *)
(* directories; deliveries follow.                                         *)
(***************************************************************************)
SubdirNames == {"tmp", "new", "cur"}

InitInitFile ==
    /\ PureIdle
    /\ KeysIdle
    /\ \E present \in SUBSET SubdirNames :
          \E files \in SUBSET (SubdirNames \ present) :
             fs = [dir \in {Root("A")} \cup {<<"A", n>> : n \in present} |->
                     IF dir = Root("A") THEN [n \in files |-> 1] ELSE <<>>]
    /\ data = << <<1>> >>
    /\ age = [i \in DOMAIN data |-> 0]
    /\ del = [d \in Deliverers |-> IdleDel]
    /\ handles = <<>>
    /\ ret = NoRet
    /\ readdirChunk = DefaultReaddirChunk

SpecInitFile == InitInitFile /\ [][NextInit]_vars

(***************************************************************************)
(* SpecChunks: every scan of a directory in blocks of readdirChunk names,  *)
(* with readdirChunk from 0 to the number of files plus one, as in         *)
(* TestDifferentSizesOfReaddirChunks.                                      *)
(***************************************************************************)
ChunkTmpNames == {KeyA}
ChunkNewNames == {KeyA, KeyB \o Info(<<FlagSeen>>)}
ChunkCurNames == {KeyC \o Info(<<>>), KeyC \o Info(<<FlagTrashed>>)}
ChunkKeys == {KeyB}

InitChunks ==
    /\ PureIdle
    /\ KeysIdle
    /\ \E T \in SUBSET ChunkTmpNames, N \in SUBSET ChunkNewNames,
          C \in SUBSET ChunkCurNames :
          /\ fs = [EmptyFs EXCEPT ![Tmp("A")] = [n \in T |-> 1],
                                  ![New("A")] = [n \in N |-> 1],
                                  ![Cur("A")] = [n \in C |-> 1]]
          /\ readdirChunk \in 0..(Cardinality(T) + Cardinality(N) + Cardinality(C) + 1)
    /\ data = << <<1>> >>
    /\ age = [i \in DOMAIN data |-> 0]
    /\ del = <<>>
    /\ handles = <<>>
    /\ ret = NoRet

NextChunks ==
    \/ \E mb \in Mailboxes : Walk(mb, 0, 0)
    \/ \E mb \in Mailboxes : Unseen(mb)
    \/ \E mb \in Mailboxes : UnseenCount(mb)
    \/ \E mb \in Mailboxes : Clean(mb)
    \/ \E mb \in Mailboxes, key \in ChunkKeys : MessageByKey(mb, key)

SpecChunks == InitChunks /\ [][NextChunks]_vars

(***************************************************************************)
(* Properties.                                                             *)
(***************************************************************************)
Published(mb) == {New(mb), Cur(mb)}

LinksOf(ino) == {pth \in UNION {{Path(dir, n) : n \in DOMAIN fs[dir]} : dir \in DOMAIN fs} :
                    fs[pth.dir][pth.base] = ino}

\* C1: in every reachable state every file under new/ or cur/ that a
\* delivery (NewDelivery or Dir.Create) staged belongs to a delivery whose
\* Close has run and holds exactly the bytes written to that delivery; a
\* delivery that has not been closed has its file under tmp/ only.
C1_AtomicDelivery ==
    \A d \in DOMAIN del :
        /\ del[d].pc = "open" =>
              LinksOf(del[d].ino) = {Path(Tmp(del[d].mb), del[d].key)}
        /\ \A pth \in LinksOf(del[d].ino) :
              pth.dir \in UNION {Published(mb) : mb \in Mailboxes} =>
                  del[d].pc = "done" /\ data[del[d].ino] = del[d].sent

\* C1 witness: a closed delivery of MaxBody bytes has been promoted to cur/
\* while another writer is still open with part of its bytes written.
C1_Witness ==
    \E d1, d2 \in DOMAIN del :
        /\ del[d1].pc = "done" /\ del[d1].kind = "delivery"
        /\ Len(del[d1].sent) = MaxBody
        /\ \E pth \in LinksOf(del[d1].ino) : pth.dir = Cur(del[d1].mb)
        /\ del[d2].pc = "open" /\ Len(del[d2].sent) = 1

C2_Files ==
    \A d \in DOMAIN del :
        /\ del[d].pc = "open" =>
              /\ LinksOf(del[d].ino) = {Path(Tmp(del[d].mb), del[d].key)}
              /\ data[del[d].ino] = del[d].sent
        /\ del[d].pc = "done" =>
              /\ Cardinality(LinksOf(del[d].ino)) = 1
              /\ \A pth \in LinksOf(del[d].ino) : pth.dir \in Published(del[d].mb)
              /\ data[del[d].ino] = del[d].sent

C2_Step ==
    \A d \in DOMAIN del :
        /\ (del[d].pc = "open" /\ del[d].kind = "delivery" /\ del'[d].pc = "done") =>
              /\ Exists(fs', Path(New(del[d].mb), del[d].key))
              /\ fs'[New(del[d].mb)][del[d].key] = del[d].ino
              /\ data'[del[d].ino] = del[d].sent
              /\ ~Exists(fs', Path(Tmp(del[d].mb), del[d].key))
        /\ (del[d].pc = "idle" /\ del'[d].pc = "open") =>
              ~Exists(fs, Path(Tmp(del'[d].mb), del'[d].key))
        /\ (del[d].pc = "idle" /\ del'[d].pc = "failed") =>
              /\ Exists(fs, Path(Tmp(del'[d].mb), del'[d].key))
              /\ fs' = fs /\ data' = data

\* C2: with deliverers interleaved in any order, a Close that returns nil
\* leaves the delivery's content in new/ under its bare key and nothing
\* under tmp/; the file of every open or closed delivery stays linked
\* exactly once with exactly the bytes written to it; and NewDelivery /
\* Create succeed only when tmp/ has no entry of the key's name, failing
\* without touching any file otherwise.
C2_ConcurrentDelivery == []C2_Files /\ [][C2_Step]_vars

\* C2 witness: two deliveries have both been closed and lie in new/.
C2_Witness ==
    \E d1, d2 \in DOMAIN del :
        /\ d1 # d2
        /\ \A d \in {d1, d2} :
              /\ del[d].pc = "done" /\ del[d].kind = "delivery"
              /\ Len(del[d].sent) > 0
              /\ LinksOf(del[d].ino) = {Path(New(del[d].mb), del[d].key)}

\* C3: no two calls of newKey in one process return the same key.
C3_KeysUnique ==
    \A i, j \in 1..Len(generated) : i # j => generated[i].key # generated[j].key

\* C3 witness: two goroutines have each generated KeysPerGoroutine keys, and
\* two keys of different goroutines have the same timestamp and the same
\* random bytes.
C3_Witness ==
    /\ Len(generated) = NumGoroutines * KeysPerGoroutine
    /\ \E i, j \in 1..Len(generated) :
          /\ generated[i].g # generated[j].g
          /\ generated[i].t = generated[j].t
          /\ generated[i].bs = generated[j].bs

\* C4: for every key without a separator and every list of flag characters,
\* formatBasename returns a basename that parseBasename decodes without
\* error to the key and the sorted, de-duplicated flags.
C4_RoundTrip ==
    ~HasSeparator(arg.key) =>
        /\ res.stage = "encoded" => res.basename # Panic
        /\ res.stage = "decoded" =>
              res.parsed = [key |-> arg.key, flags |-> Canonical(arg.flags), err |-> NoErr]

(***************************************************************************)
(* Unseen: promotion and tolerance.                                        *)
(***************************************************************************)
NotHidden(names) == {n \in names : n[1] # HiddenMarker}

Returned(msgs, m) == \E i \in 1..Len(msgs) : msgs[i] = m

C5_Post(mb) ==
    LET before == fs[New(mb)] IN
    /\ ret'.outcome = "returned"
    /\ ret'.err = NoErr
    /\ data' = data
    /\ Len(ret'.msgs) = Cardinality(NotHidden(DOMAIN before))
    /\ \A n \in DOMAIN before :
          IF n[1] = HiddenMarker
          THEN /\ Exists(fs', Path(New(mb), n))
               /\ fs'[New(mb)][n] = before[n]
          ELSE LET key == CutBefore(n)
                   to == Path(Cur(mb), key \o Info(<<>>))
               IN /\ ~Exists(fs', Path(New(mb), n))
                  /\ Exists(fs', to)
                  /\ fs'[Cur(mb)][to.base] = before[n]
                  /\ Returned(ret'.msgs, Message(to, key, <<>>))

\* C5: every call of Unseen returns, and for every entry n that new/ held
\* before the call: a hidden n is still in new/ with its content and is not
\* returned; any other n is gone from new/, cur/<key><separator>2, holds the
\* content n had (key = the part of n before the first separator), and a
\* handle with that key, no flags and that cur/ path is among the returned
\* handles, which are as many as the non-hidden entries.
C5_UnseenPromotes == [][\A mb \in Mailboxes : Unseen(mb) => C5_Post(mb)]_vars

C6_Post(mb) ==
    LET names == NotHidden(DOMAIN fs[New(mb)])
        valid == {n \in names : CutBefore(n) # <<>>}
    IN /\ ret'.outcome = "returned"
       /\ (valid # names) => ret'.err # NoErr
       /\ \A n \in valid :
             /\ ~Exists(fs', Path(New(mb), n))
             /\ Returned(ret'.msgs, Message(Path(Cur(mb), CutBefore(n) \o Info(<<>>)),
                                            CutBefore(n), <<>>))

\* C6: whatever non-hidden names new/ holds, a call of Unseen returns (it
\* neither panics nor hangs), reports an error when some entry has no key to
\* decode, and has promoted and returned every entry that has a key.
C6_UnseenTolerates == [][\A mb \in Mailboxes : Unseen(mb) => C6_Post(mb)]_vars

(***************************************************************************)
(* SetFlags.                                                               *)
(***************************************************************************)
C7_Post(h, F) ==
    LET msg == handles[h]
        d == msg.filename.dir
        old == msg.filename.base
        to == Path(d, msg.key \o Info(Canonical(F)))
    IN /\ handles'[h] = Message(to, msg.key, Canonical(F))
       /\ data' = data
       /\ Exists(fs', to)
       /\ fs'[d][to.base] = fs[d][old]
       /\ DOMAIN fs'[d] = ((DOMAIN fs[d]) \ {old}) \cup {to.base}
       /\ \A n \in (DOMAIN fs[d]) \ {old} : n \in DOMAIN fs'[d] /\ fs'[d][n] = fs[d][n]
       /\ \A x \in DirPaths \ {d} : fs'[x] = fs[x]

\* C7: when SetFlags(F) on a handle whose file is present in cur/ returns
\* nil, the file has moved from its old basename to <key><separator>2, plus
\* canonical(F) in the same directory with its content, every other entry of
\* the mailbox is what it was, none was created or removed, and the handle
\* has the same key, flags canonical(F) and the new path.
C7_SetFlagsRenames ==
    [][\A h \in 1..MaxHandles, F \in FlagInputs :
          (/\ SetFlags(h, F)
           /\ handles[h].filename.dir = Cur("A")
           /\ Exists(fs, handles[h].filename)
           /\ ret'.outcome = "returned"
           /\ ret'.err = NoErr) => C7_Post(h, F)]_vars

\* C8: when the rename of SetFlags fails, the call returns that error, every
\* handle is what it was before the call and no file of the mailbox changed.
C8_SetFlagsFailureLeavesAll ==
    [][(ret'.op = "SetFlags" /\ ret'.outcome = "returned" /\ ret'.err = PathError)
       => (handles' = handles /\ fs' = fs /\ data' = data)]_vars

\* A SetFlags with new flags has just failed on a handle whose file is gone.
C8_Witness ==
    /\ ret.op = "SetFlags"
    /\ ret.err = PathError
    /\ ~Exists(fs, handles[ret.h].filename)
    /\ Canonical(ret.flags) # handles[ret.h].flags

(***************************************************************************)
(* Lookup by key.                                                          *)
(***************************************************************************)
\* The files of cur/ named <key><separator><info>.
Carrying(mb, key) ==
    {n \in DOMAIN fs[Cur(mb)] : CutBefore(n) = key /\ Len(n) > Len(key)}

\* C9: whenever exactly one file of cur/ is named <key><separator>2,<flags>,
\* whatever the flags and whatever readdirChunk from 0 to the number of files
\* plus one, MessageByKey(key) returns without error a handle on that file.
C9_LookupComplete ==
    [][\A mb \in Mailboxes, key \in LookupKeys :
          (MessageByKey(mb, key) /\ Cardinality(Carrying(mb, key)) = 1)
          => /\ ret'.outcome = "returned"
             /\ ret'.err = NoErr
             /\ ret'.msg.filename.dir = Cur(mb)
             /\ ret'.msg.filename.base \in Carrying(mb, key)
             /\ ret'.msg.key = key]_vars

\* A file whose flags are in no guess was found among three files with
\* readdirChunk 0, and another with readdirChunk 1.
C9_Witness ==
    /\ ret.op = "MessageByKey"
    /\ ret.err = NoErr
    /\ ret.outcome = "returned"
    /\ readdirChunk \in {0, 1}
    /\ Cardinality(DOMAIN fs[Cur("A")]) = MaxLookupFiles
    /\ Cardinality(Carrying("A", ret.key)) = 1
    /\ ret.msg.flags \in {<<FlagTrashed>>, <<FlagPassed, FlagReplied>>}

\* C10: whenever several files of cur/ share a key, MessageByKey(key)
\* returns a KeyError with that key and the number of those files.
C10_AmbiguousLookup ==
    [][\A mb \in Mailboxes, key \in LookupKeys :
          (MessageByKey(mb, key) /\ Cardinality(Carrying(mb, key)) > 1)
          => ret'.err = KeyError(key, Cardinality(Carrying(mb, key)))]_vars

(***************************************************************************)
(* Remove, and the lookup of a key that has no file.                       *)
(***************************************************************************)
\* Every entry of the mailboxes other than path is in g what it was in f,
\* and g has no entry that f had not.
OthersUnchanged(f, g, path) ==
    \A d \in DirPaths :
       /\ DOMAIN g[d] \subseteq DOMAIN f[d]
       /\ \A n \in DOMAIN f[d] : Path(d, n) # path => (n \in DOMAIN g[d] /\ g[d][n] = f[d][n])

\* C11: when Remove returns nil the file of the handle is gone and every
\* other entry and every content is what it was; and MessageByKey of a key
\* that no file of cur/ carries (as after the removal) returns no handle and
\* the KeyError with that key and N = 0.
C11_RemoveThenNotFound ==
    [][/\ (ret'.op = "Remove" /\ ret'.err = NoErr)
          => /\ ~Exists(fs', handles[ret'.h].filename)
             /\ OthersUnchanged(fs, fs', handles[ret'.h].filename)
             /\ data' = data
             /\ handles' = handles
       /\ (ret'.op = "MessageByKey" /\ Carrying(ret'.mb, ret'.key) = {})
          => /\ ret'.outcome = "returned"
             /\ ret'.err = KeyError(ret'.key, 0)
             /\ ret'.msg = NoMsg]_vars

\* The key of a message that Remove has deleted was looked up and not found.
C11_Witness ==
    /\ ret.op = "MessageByKey"
    /\ ret.err = KeyError(ret.key, 0)
    /\ \E h \in 1..Len(handles) :
          handles[h].key = ret.key /\ ~Exists(fs, handles[h].filename)

(***************************************************************************)
(* Walk.                                                                   *)
(***************************************************************************)
WellFormed(names) == {n \in NotHidden(names) : parseBasename(n).err = NoErr}
Malformed(names) == {n \in NotHidden(names) : parseBasename(n).err # NoErr}

HandleOf(mb, n) == Message(Path(Cur(mb), n), parseBasename(n).key, parseBasename(n).flags)

\* The decoding errors of the non-hidden names of a listing, in its order.
RECURSIVE ErrsOf(_)
ErrsOf(names) ==
    IF names = <<>> THEN <<>>
    ELSE IF Head(names) \in Malformed({Head(names)})
    THEN <<parseBasename(Head(names)).err>> \o ErrsOf(Tail(names))
    ELSE ErrsOf(Tail(names))

\* C12: a Walk whose callback never fails and whose directory reads all
\* succeed has called fn exactly once for every non-hidden name of cur/
\* that decodes and for nothing else, and returns nil when no non-hidden
\* name is malformed, otherwise the join of one MailfileError or FlagError
\* per malformed non-hidden name.
C12_WalkVisitsWellFormed ==
    (ret.op = "Walk" /\ ret.failAt = 0 /\ ret.ioErrAt = 0)
    => LET names == DOMAIN fs[Cur(ret.mb)] IN
       /\ ret.outcome = "returned"
       /\ Len(ret.calls) = Cardinality(WellFormed(names))
       /\ \A n \in WellFormed(names) : Returned(ret.calls, HandleOf(ret.mb, n))
       /\ IF Malformed(names) = {}
          THEN ret.err = NoErr
          ELSE /\ ret.err.kind = "join"
               /\ Len(ret.err.errs) = Cardinality(Malformed(names))
               /\ \A n \in Malformed(names) :
                     /\ parseBasename(n).err.kind \in {"MailfileError", "FlagError"}
                     /\ \E i \in 1..Len(ret.err.errs) : ret.err.errs[i] = parseBasename(n).err

\* A Walk has visited a message and reported a malformed name next to a
\* hidden one.
C12_Witness ==
    /\ ret.op = "Walk" /\ ret.failAt = 0 /\ ret.ioErrAt = 0
    /\ ret.err # NoErr
    /\ Len(ret.err.errs) = 1
    /\ Len(ret.calls) = 1
    /\ \E n \in DOMAIN fs[Cur(ret.mb)] : n[1] = HiddenMarker

\* The place in the listing of the name whose callback failed.
FailedAt(r) ==
    CHOOSE i \in 1..Len(r.listing) : r.listing[i] = r.calls[Len(r.calls)].filename.base

\* C13: when the callback fails at some entry, that invocation is the last
\* one, and the returned error joins the errors of the malformed names read
\* before that entry with the callback's error.
C13_WalkStopsAtCallbackError ==
    (ret.op = "Walk" /\ ret.outcome = "returned" /\ ret.failAt > 0
        /\ Len(ret.calls) >= ret.failAt)
    => /\ Len(ret.calls) = ret.failAt
       /\ ret.err.kind = "join"
       /\ ret.err.errs = Append(ErrsOf(SubSeq(ret.listing, 1, FailedAt(ret) - 1)), FnError)
       /\ \A i \in (FailedAt(ret) + 1)..Len(ret.listing) :
             ~Returned(ret.calls, HandleOf(ret.mb, ret.listing[i]))

\* The callback failed at its first invocation, after a malformed name and
\* before another message was read.
C13_Witness ==
    /\ ret.op = "Walk" /\ ret.failAt = 1 /\ Len(ret.calls) = 1
    /\ Len(ret.err.errs) = 2
    /\ Cardinality(WellFormed(DOMAIN fs[Cur(ret.mb)])) = 2

\* C14: when a directory read of Walk fails after malformed names have been
\* read, the returned error holds their errors together with the error of
\* the read.
C14_WalkBundlesTerminalError ==
    (ret.op = "Walk" /\ ret.outcome = "returned" /\ ret.failAt = 0
        /\ ret.reads = ret.ioErrAt /\ ret.reads > 1
        /\ Malformed(DOMAIN fs[Cur(ret.mb)]) # {})
    => /\ ret.err.kind = "join"
       /\ ret.err.errs = Append(ErrsOf(ret.listing), IOError)

(***************************************************************************)
(* CopyTo and MoveTo.                                                      *)
(***************************************************************************)
FlagSet(flags) == Range(flags)

C15_Post ==
    LET src == handles[ret'.h]
        new == ret'.msg
        tcur == Cur(ret'.target)
        sdir == src.filename.dir
        sbase == src.filename.base
    IN /\ handles' = handles
       /\ Exists(fs', src.filename)
       /\ fs'[sdir][sbase] = fs[sdir][sbase]
       /\ \A i \in 1..Len(data) : data'[i] = data[i]
       /\ new.filename.dir = tcur
       /\ new.filename.base \notin DOMAIN fs[tcur]
       /\ DOMAIN fs'[tcur] = (DOMAIN fs[tcur]) \cup {new.filename.base}
       /\ \A d \in DirPaths : \A n \in DOMAIN fs[d] : n \in DOMAIN fs'[d] /\ fs'[d][n] = fs[d][n]
       /\ \A d \in DirPaths \ {tcur} : DOMAIN fs'[d] = DOMAIN fs[d]
       /\ data'[fs'[tcur][new.filename.base]] = data[fs[sdir][sbase]]
       /\ new.flags = src.flags
       /\ parseBasename(new.filename.base).err = NoErr
       /\ FlagSet(parseBasename(new.filename.base).flags) = FlagSet(src.flags)
       /\ parseBasename(new.filename.base).key = new.key
       /\ new.key # src.key

C16_FailedCopyInvisible ==
    [][(ret'.op = "CopyTo" /\ ret'.outcome = "returned" /\ ret'.err # NoErr)
       => /\ fs'[Cur(ret'.target)] = fs[Cur(ret'.target)]
          /\ fs'[New(ret'.target)] = fs[New(ret'.target)]]_vars

\* C17: when MoveTo into another mailbox returns nil, the entry has left the
\* source's cur/ and the target's cur/ holds it under the same basename with
\* the same content, and the handle has its key and flags and the new path;
\* when MoveTo returns an error, the handles and both mailboxes are what
\* they were.
C17_MoveKeepsBasename ==
    [][(ret'.op = "MoveTo")
       => LET msg == handles[ret'.h]
              to == Path(Cur(ret'.target), msg.filename.base)
          IN IF ret'.err = NoErr
             THEN /\ Exists(fs, msg.filename)
                  /\ (to # msg.filename) => ~Exists(fs', msg.filename)
                  /\ Exists(fs', to)
                  /\ fs'[to.dir][to.base] = fs[msg.filename.dir][msg.filename.base]
                  /\ data' = data
                  /\ handles' = [handles EXCEPT ![ret'.h] = Message(to, msg.key, msg.flags)]
             ELSE /\ handles' = handles
                  /\ fs' = fs
                  /\ data' = data]_vars

\* A message has been moved from A to B, and a later move of a handle whose
\* file is gone has failed.
C17_Witness ==
    /\ ret.op = "MoveTo"
    /\ ret.err = PathError
    /\ \E h \in 1..Len(handles) :
          /\ handles[h].filename.dir = Cur("B")
          /\ Exists(fs, handles[h].filename)

(***************************************************************************)
(* Abort.                                                                  *)
(***************************************************************************)
\* The entries of new/ and cur/ of every mailbox whose name has the key.
VisibleFor(key) ==
    {p \in UNION {{Path(d, n) : n \in DOMAIN fs[d]} :
                     d \in {New(mb) : mb \in Boxes} \cup {Cur(mb) : mb \in Boxes}} :
        CutBefore(p.base) = key}

\* C18: a delivery that is open or that Abort has ended has no entry under
\* its key in new/ or cur/, whatever the other deliverers and the reader
\* have done, and once Abort has returned nil its file is not in tmp/.
C18_AbortLeavesNoTrace ==
    \A d \in DOMAIN del :
       (del[d].kind = "delivery" /\ del[d].pc \in {"open", "aborted"})
       => /\ VisibleFor(del[d].key) = {}
          /\ del[d].pc = "aborted" => ~Exists(fs, Path(Tmp(del[d].mb), del[d].key))

\* One delivery was aborted after a write, another was published and the
\* reader has promoted it.
C18_Witness ==
    /\ \E d \in DOMAIN del :
          del[d].kind = "delivery" /\ del[d].pc = "aborted" /\ del[d].sent # <<>>
    /\ \E d \in DOMAIN del : del[d].kind = "delivery" /\ del[d].pc = "done"
    /\ ret.op = "Unseen"
    /\ ret.msgs # <<>>

(***************************************************************************)
(* Create.                                                                 *)
(***************************************************************************)
C19_Files ==
    \A d \in DOMAIN del :
       (del[d].kind = "create")
       => LET inCur == {n \in DOMAIN fs[Cur(del[d].mb)] : CutBefore(n) = del[d].key}
              staged == Path(Tmp(del[d].mb), del[d].key)
          IN /\ del[d].pc = "open" => (Exists(fs, staged) /\ inCur = {})
             /\ del[d].pc = "done"
                => /\ inCur = {del[d].key \o Info(Canonical(del[d].msg.flags))}
                   /\ \A n \in inCur : data[fs[Cur(del[d].mb)][n]] = del[d].sent

C19_Lookup ==
    \A d \in DOMAIN del :
       (/\ ret'.op = "MessageByKey"
        /\ del' = del
        /\ del[d].kind = "create"
        /\ del[d].pc = "done"
        /\ ret'.key = del[d].key)
       => /\ ret'.outcome = "returned"
          /\ ret'.err = NoErr
          /\ ret'.msg.filename = Path(Cur(del[d].mb), del[d].key \o Info(Canonical(del[d].msg.flags)))
          /\ ret'.msg.flags = Canonical(del[d].msg.flags)

\* C19: a message made by Create is in tmp/ under its key and has no file in
\* cur/ while its writer is open; once the writer's Close has returned nil
\* the only file of cur/ with the key is <key><separator>2,<canonical flags>
\* with the bytes written, and MessageByKey of the key returns that path and
\* the canonical form of the flags given to Create.
C19_CreatePublishesOnClose == []C19_Files /\ [][C19_Lookup]_vars

(***************************************************************************)
(* The encoding is canonical.                                              *)
(***************************************************************************)
\* C20: the basename formatBasename returns for a key and a flag list is the
\* key, the separator, "2," and the distinct flags in ascending order, and
\* so is the one it returns for every other list of the same flags.
C20_CanonicalEncoding ==
    (res.stage = "encoded")
    => /\ res.basename = arg.key \o Info(Canonical(arg.flags))
       /\ \A F2 \in CodecFlagLists :
             FlagSet(F2) = FlagSet(arg.flags) => formatBasename(arg.key, F2) = res.basename

\* C21: parseBasename classifies every basename in this order: fewer than
\* two segments gives MailfileError; otherwise an info shorter than two
\* characters or whose second character is not ',' gives FlagError with
\* Experimental = false; otherwise a first character '1' gives FlagError
\* with Experimental = true; otherwise a first character other than '2'
\* gives FlagError with Experimental = false; otherwise it succeeds.
C21_Class(basename) ==
    LET seg == FieldsFunc(basename) IN
    IF Len(seg) < 2 THEN MailfileError(basename)
    ELSE LET info == seg[2] IN
         IF Len(info) < 2 THEN FlagError(info, FALSE)
         ELSE IF info[2] # Comma THEN FlagError(info, FALSE)
         ELSE IF info[1] = GenExperimental THEN FlagError(info, TRUE)
         ELSE IF info[1] # GenStandard THEN FlagError(info, FALSE)
         ELSE NoErr

C21_ClassificationOrder ==
    res.stage = "parsed" => res.parsed.err = C21_Class(arg.basename)

\* The info "1x" has been classified: bad info, not experimental.
C21_Witness ==
    /\ res.stage = "parsed"
    /\ res.parsed.err = FlagError(<<GenExperimental, FlagSeen>>, FALSE)

\* The info "1," has been classified: experimental.
C21_WitnessExperimental ==
    /\ res.stage = "parsed"
    /\ res.parsed.err = FlagError(<<GenExperimental, Comma>>, TRUE)

\* C22: parseBasename splits the basename at the first occurrence of the
\* separator only: the key is everything before the first separator and the
\* info is everything after it, whatever further separators the basename
\* holds (several, consecutive, leading or trailing ones).
RECURSIVE C22_CutAfter(_)
C22_CutAfter(s) ==
    IF s = <<>> THEN <<>>
    ELSE IF Head(s) = separator THEN Tail(s)
    ELSE C22_CutAfter(Tail(s))

C22_SplitAtFirst(basename) ==
    LET key == CutBefore(basename)
        info == C22_CutAfter(basename)
        b == Bytes(info)
        failed(err) == [key |-> <<>>, flags |-> <<>>, err |-> err]
    IN IF Len(b) < 2 \/ b[2] # Comma THEN failed(FlagError(info, FALSE))
       ELSE IF b[1] = GenExperimental THEN failed(FlagError(info, TRUE))
       ELSE IF b[1] # GenStandard THEN failed(FlagError(info, FALSE))
       ELSE [key |-> key, flags |-> ParseFlags(info), err |-> NoErr]

C22_SplitsAtFirstSeparator ==
    (res.stage = "parsed" /\ HasSeparator(arg.basename))
        => res.parsed = C22_SplitAtFirst(arg.basename)

\* The split is the one described when the basename holds exactly one
\* separator with a non-empty key before it and a non-empty info after it.
C22_OneSeparator ==
    (/\ res.stage = "parsed"
     /\ Cardinality({i \in 1..Len(arg.basename) : arg.basename[i] = separator}) = 1
     /\ CutBefore(arg.basename) # <<>>
     /\ C22_CutAfter(arg.basename) # <<>>)
        => res.parsed = C22_SplitAtFirst(arg.basename)

\* C23: for every basename that parseBasename accepts, the returned flag
\* list is sorted ascending by character code and contains no duplicates,
\* whatever order and duplication the flags have on disk.
C23_SortedNoDuplicates ==
    (res.stage = "parsed" /\ res.parsed.err = NoErr)
        => \A i \in 1..(Len(res.parsed.flags) - 1) :
              res.parsed.flags[i] < res.parsed.flags[i + 1]

\* The returned flag list of an accepted basename is in ascending order,
\* duplicates allowed.
C23_Sorted ==
    (res.stage = "parsed" /\ res.parsed.err = NoErr)
        => \A i \in 1..(Len(res.parsed.flags) - 1) :
              res.parsed.flags[i] <= res.parsed.flags[i + 1]

\* C24: Dir.Init is idempotent: called on a path, and called again on the
\* resulting mailbox, also after messages have been delivered, it returns
\* nil each time, leaves tmp/, new/ and cur/ present and leaves every
\* existing entry unchanged.
C24_InitIdempotent ==
    /\ [](ret.op = "Init" => ret.err = NoErr)
    /\ [][(ret'.op = "Init" /\ del' = del)
            => /\ ({Root(ret'.mb)} \cup Subdirs(ret'.mb)) \subseteq DOMAIN fs'
               /\ \A dir \in DOMAIN fs : fs'[dir] = fs[dir]
               /\ data' = data]_vars

\* Init has returned from a call that found the whole structure in place
\* and a delivered message in new/, and that message is still there.
C24_Witness ==
    /\ ret.op = "Init"
    /\ ret.err = NoErr
    /\ ({Root("A")} \cup Subdirs("A")) \subseteq DOMAIN ret.found
    /\ \E d \in Deliverers :
          /\ del[d].pc = "done"
          /\ Exists(ret.found, Path(New("A"), del[d].key))
          /\ Exists(fs, Path(New("A"), del[d].key))
          /\ data[fs[New("A")][del[d].key]] = del[d].sent

\* Init has returned from a call on a free path.
C24_WitnessFresh ==
    /\ ret.op = "Init"
    /\ ret.err = NoErr
    /\ ret.found = <<>>
    /\ fs = [dir \in {Root("A")} \cup Subdirs("A") |-> <<>>]

\* C25: Clean, when no file system error occurs, removes from tmp/ exactly
\* the files whose modification time is more than 36 hours before the
\* moment Clean started, keeps every younger file of tmp/, and never
\* creates, removes or renames anything under new/ or cur/.
C25_CleanRemovesExactlyOld ==
    [][(ret'.op = "Clean" /\ del' = del /\ age' = age)
         => LET tmp == Tmp(ret'.mb) IN
            /\ ret'.outcome = "returned"
            /\ ret'.err = NoErr
            /\ DOMAIN fs'[tmp] = {n \in DOMAIN fs[tmp] : age[fs[tmp][n]] <= 36}
            /\ \A n \in DOMAIN fs'[tmp] : fs'[tmp][n] = fs[tmp][n]
            /\ \A dir \in DOMAIN fs : dir # tmp => fs'[dir] = fs[dir]
            /\ data' = data]_vars

\* Clean has returned from a call that found in tmp/ a file older than 36
\* hours, now gone, and a file exactly 36 hours old, still there, while the
\* message in new/, older than 36 hours as well, is in place.
C25_Witness ==
    /\ ret.op = "Clean"
    /\ \E old, young \in DOMAIN ret.found[Tmp("A")] :
          /\ age[ret.found[Tmp("A")][old]] > 36
          /\ old \notin DOMAIN fs[Tmp("A")]
          /\ young \in DOMAIN fs[Tmp("A")]
          /\ age[fs[Tmp("A")][young]] = 36
    /\ KeyC \in DOMAIN fs[New("A")]
    /\ age[fs[New("A")][KeyC]] > 36

\* C26: UnseenCount returns exactly the number of entries in new/ whose
\* name does not begin with '.', which equals the number of handles an
\* immediately following Unseen returns, and UnseenCount itself leaves
\* tmp/, new/ and cur/ unchanged.
C26_CountOf(mb) == Cardinality({n \in DOMAIN fs[New(mb)] : n[1] # HiddenMarker})

C26_CountReturned ==
    [][ret'.op = "UnseenCount"
         => /\ ret'.outcome = "returned"
            /\ ret'.err = NoErr
            /\ ret'.count = C26_CountOf(ret'.mb)
            /\ fs' = fs
            /\ data' = data]_vars

C26_UnseenCountMatchesUnseen ==
    /\ C26_CountReturned
    /\ [][(ret.op = "UnseenCount" /\ ret'.op = "Unseen" /\ ret'.mb = ret.mb)
            => /\ ret'.outcome = "returned"
               /\ ret'.err = NoErr
               /\ Len(ret'.msgs) = ret.count]_vars

\* The count is matched by the following Unseen whenever no name in new/
\* begins with the separator.
C26_MatchesWithoutEmptyKey ==
    [][(/\ ret.op = "UnseenCount" /\ ret'.op = "Unseen" /\ ret'.mb = ret.mb
        /\ \A n \in DOMAIN fs[New(ret.mb)] : n[1] # separator)
         => /\ ret'.outcome = "returned"
            /\ ret'.err = NoErr
            /\ Len(ret'.msgs) = ret.count]_vars

\* C27: the lifecycle of an entry is forward-only: across any sequence of
\* library operations its location only follows tmp -> new (Delivery.Close),
\* tmp -> cur (the Close of Create's writer), new -> cur (Unseen), cur -> cur
\* (SetFlags, or MoveTo into another mailbox's cur) or removal (Abort and
\* Clean from tmp, Remove from cur); no operation moves a file from cur/
\* back to new/ or tmp/, from new/ back to tmp/, or makes a removed entry
\* reappear.
C27_Links(f, ino) ==
    {pth \in UNION {{Path(dir, n) : n \in DOMAIN f[dir]} : dir \in DOMAIN f} :
        f[pth.dir][pth.base] = ino}

C27_Area(pths) == {pth.dir[2] : pth \in pths}

C27_ClosedBy(kind, ino) ==
    \E d \in DOMAIN del :
       /\ del[d].kind = kind /\ del[d].ino = ino
       /\ del[d].pc = "open" /\ del'[d].pc = "done"

C27_AbortedBy(ino) ==
    \E d \in DOMAIN del :
       /\ del[d].kind = "delivery" /\ del[d].ino = ino
       /\ del[d].pc = "open" /\ del'[d].pc = "aborted"

C27_ReaderDid(ops) == ret'.op \in ops /\ del' = del

C27_StepOf(ino) ==
    LET before == IF ino \in DOMAIN data THEN C27_Links(fs, ino) ELSE {}
        after == C27_Links(fs', ino)
        from == C27_Area(before)
        to == C27_Area(after)
    IN /\ Cardinality(after) <= 1
       /\ \/ after = before
          \/ /\ ino \notin DOMAIN data
             /\ \/ to = {"tmp"} /\ del' # del
                \/ to \in {{"tmp"}, {"cur"}} /\ C27_ReaderDid({"CopyTo"})
          \/ from = {"tmp"} /\ to = {"new"} /\ C27_ClosedBy("delivery", ino)
          \/ from = {"tmp"} /\ to = {"cur"} /\ C27_ClosedBy("create", ino)
          \/ from = {"tmp"} /\ to = {} /\ (C27_AbortedBy(ino) \/ C27_ReaderDid({"Clean"}))
          \/ from = {"new"} /\ to = {"cur"} /\ C27_ReaderDid({"Unseen"})
          \/ from = {"cur"} /\ to = {"cur"} /\ C27_ReaderDid({"SetFlags", "MoveTo"})
          \/ from = {"cur"} /\ to = {} /\ C27_ReaderDid({"Remove"})

C27_ForwardOnly == [][\A ino \in DOMAIN data' : C27_StepOf(ino)]_vars

\* A delivered message has been promoted by Unseen, flagged, moved into the
\* other mailbox's cur/ and is still there, while a file left in tmp/ by a
\* failed copy has been removed by Clean.
C27_Witness ==
    /\ \E d \in DOMAIN del :
          /\ del[d].kind = "delivery"
          /\ del[d].pc = "done"
          /\ C27_Links(fs, del[d].ino) = {Path(Cur("B"), del[d].key \o Info(<<FlagSeen>>))}
    /\ ret.op = "Clean"
    /\ \E n \in DOMAIN ret.found[Tmp("A")] : C27_Links(fs, ret.found[Tmp("A")][n]) = {}

\* C28: in every state reachable from initialised empty mailboxes through
\* any sequence and interleaving of the library's operations, with keys
\* generated by newKey, no two files in the same cur/ carry the same key and
\* no key is present in more than one of tmp/, new/, cur/ of a mailbox.
C28_Key(name) == CutBefore(name)

C28_KeysUnique ==
    \A mb \in Boxes :
       /\ \A n1, n2 \in DOMAIN fs[Cur(mb)] : n1 # n2 => C28_Key(n1) # C28_Key(n2)
       /\ \A d1, d2 \in {Tmp(mb), New(mb), Cur(mb)} :
             d1 # d2 => \A n1 \in DOMAIN fs[d1], n2 \in DOMAIN fs[d2] :
                           C28_Key(n1) # C28_Key(n2)

\* cur/ of the mailbox holds a delivered message that has been promoted and
\* flagged, and a copy of it.
C28_Witness ==
    /\ Cardinality(DOMAIN fs[Cur("A")]) = 2
    /\ \E d \in DOMAIN del :
          /\ del[d].kind = "delivery"
          /\ Exists(fs, Path(Cur("A"), del[d].key \o Info(<<FlagSeen>>)))

\* C29: a Message handle never gives a silent wrong answer once stale:
\* after the underlying file has been renamed (SetFlags, MoveTo) or removed
\* through another handle, every operation on the stale handle (Open,
\* SetFlags, Remove, MoveTo, CopyTo, and reading Flags() and Filename())
\* either fails with an error or reflects the entry's current on-disk
\* state; it never reports success with outdated flags or path.
C29_Stale(h) == ~Exists(fs, handles[h].filename)

\* Where the entry of the handle's key is on disk now.
C29_Current(h) ==
    {pth \in UNION {{Path(dir, n) : n \in DOMAIN fs[dir]} : dir \in DOMAIN fs} :
        CutBefore(pth.base) = handles[h].key}

\* Open, SetFlags, Remove, MoveTo and CopyTo on a stale handle fail and
\* change nothing.
C29_StaleOperationsFail ==
    [][(/\ ret'.op \in {"Open", "SetFlags", "Remove", "MoveTo", "CopyTo"}
        /\ C29_Stale(ret'.h))
         => /\ ret'.err # NoErr
            /\ fs' = fs
            /\ data' = data
            /\ handles' = handles]_vars

C29_StaleReadsReflectDisk ==
    [][(ret'.op \in {"Flags", "Filename"} /\ C29_Stale(ret'.h))
         => \/ ret'.err # NoErr
            \/ \E pth \in C29_Current(ret'.h) :
                  /\ ret'.op = "Flags" => ret'.flags = parseBasename(pth.base).flags
                  /\ ret'.op = "Filename" => ret'.filename = pth]_vars

C29_StaleHandleNeverSilent ==
    /\ C29_StaleOperationsFail
    /\ C29_StaleReadsReflectDisk

\* C30: a delivery (NewDelivery or Create) whose writer is never closed and
\* never aborted leaves its staged file only in tmp/, never visible in new/
\* or cur/, and no operation other than Clean removes it; if Clean keeps
\* being invoked while time advances, the file is eventually removed by a
\* Clean call made after its modification time is more than 36 hours old.
C30_Staged(d) == Path(Tmp(del[d].mb), del[d].key)

C30_OnlyInTmp ==
    \A d \in DOMAIN del :
       del[d].pc = "open"
          => /\ C27_Links(fs, del[d].ino) \subseteq {C30_Staged(d)}
             /\ VisibleFor(del[d].key) = {}

C30_OnlyCleanRemoves ==
    \A d \in DOMAIN del :
       (/\ del[d].pc = "open" /\ del'[d].pc = "open"
        /\ Exists(fs, C30_Staged(d))
        /\ ~Exists(fs', C30_Staged(d)))
          => /\ ret'.op = "Clean"
             /\ del' = del
             /\ C30_Staged(d) \in C27_Links(ret'.found, del[d].ino)
             /\ age[del[d].ino] > 36

C30_Removed(d) == del[d].pc = "open" /\ ~Exists(fs, C30_Staged(d))

\* The part that holds with no assumption on the clock or on Clean; it is
\* also checked under SpecAll, where the reader's operations take part.
C30_StagedUntilCleaned ==
    /\ []C30_OnlyInTmp
    /\ [][C30_OnlyCleanRemoves]_vars

C30_OrphanReclaimedByClean ==
    /\ C30_StagedUntilCleaned
    /\ \A d \in Cleaners : <>[](del[d].pc = "open") => <>C30_Removed(d)

\* The writer of a Create is still open and its staged file, written to and
\* left in tmp/, has been removed by Clean.
C30_Witness ==
    \E d \in DOMAIN del :
       /\ del[d].kind = "create"
       /\ del[d].sent # <<>>
       /\ C30_Removed(d)
       /\ ret.op = "Clean"
       /\ Exists(ret.found, C30_Staged(d))

\* The same for the writer of a NewDelivery.
C30_WitnessDelivery ==
    \E d \in DOMAIN del :
       /\ del[d].kind = "delivery"
       /\ C30_Removed(d)
       /\ ret.op = "Clean"
       /\ Exists(ret.found, C30_Staged(d))

\* C31: if the file of a claimed message is renamed inside cur/ to its bare
\* key (no separator and no info section), then looking that key up returns
\* a MailfileError: not a KeyError, not another error, and not success.
C31_BareKeyOnly(mb, key) ==
    {n \in DOMAIN fs[Cur(mb)] : CutBefore(n) = key} = {key}

C31_BareKeyIsMailfileError ==
    [][(/\ ret'.op = "MessageByKey"
        /\ del' = del
        /\ fs' = fs
        /\ C31_BareKeyOnly(ret'.mb, ret'.key))
         => /\ ret'.outcome = "returned"
            /\ ret'.err = MailfileError(ret'.key)]_vars

\* What the lookup of a key whose file has been renamed to the bare key
\* returns: KeyError with N = 0.
C31_BareKeyIsNotFound ==
    [][(/\ ret'.op = "MessageByKey"
        /\ del' = del
        /\ fs' = fs
        /\ C31_BareKeyOnly(ret'.mb, ret'.key))
         => /\ ret'.outcome = "returned"
            /\ ret'.err = KeyError(ret'.key, 0)]_vars

\* C32: the guess list is a pure optimisation: for every key and every
\* state of cur/ in which at most one file carries that key, filenameByKey
\* (guess probes followed by the scan) returns the same outcome, the same
\* path or KeyError with N = 0, as the scan alone would return with the
\* guess probes removed.
C32_ScanAlone(mb, key, listing) == ScanLoop(mb, key, listing, 1, readdirChunk)

C32_GuessesAreOptimisation ==
    [][(ret'.op = "MessageByKey" /\ Cardinality(Carrying(ret'.mb, ret'.key)) <= 1)
         => \A listing \in Perms(DOMAIN fs[Cur(ret'.mb)]) :
               LET r == C32_ScanAlone(ret'.mb, ret'.key, listing)
                   m == newMessage(r.filename.dir, r.filename.base)
               IN /\ ret'.outcome = r.outcome
                  /\ r.err # NoErr => ret'.err = r.err /\ r.err = KeyError(ret'.key, 0)
                  /\ (r.outcome = "returned" /\ r.err = NoErr)
                        => ret'.err = m.err /\ ret'.msg = m.msg]_vars

\* A lookup answered by a guess probe has returned, with readdirChunk 1 and
\* the file among three in cur/.
C32_Witness ==
    /\ ret.op = "MessageByKey"
    /\ ret.outcome = "returned"
    /\ ret.err = NoErr
    /\ readdirChunk = 1
    /\ Cardinality(DOMAIN fs[Cur("A")]) = MaxLookupFiles
    /\ Cardinality(Carrying("A", ret.key)) = 1
    /\ \E i \in 1..Len(filenameGuesses("A", ret.key)) :
          filenameGuesses("A", ret.key)[i] = ret.msg.filename

\* C33: with concurrent deliverers and a single reader that calls Unseen
\* repeatedly, every delivery whose Close returned nil is returned by
\* exactly one Unseen call: it is eventually returned by some later Unseen
\* call, it is never returned by two different Unseen calls, and Unseen
\* never returns a delivery whose Close has not performed its rename.
C33_Closed(d) == del[d].kind = "delivery" /\ del[d].pc = "done"

C33_InNew(f, d) == Exists(f, Path(New(del[d].mb), del[d].key))

C33_ReturnedKeys(r) == {r.msgs[i].key : i \in 1..Len(r.msgs)}

\* What one Unseen call returns: each delivery that was closed and waiting
\* in new/, once, and nothing else; the call takes them out of new/.
C33_UnseenStep ==
    (ret'.op = "Unseen" /\ del' = del)
       => /\ ret'.outcome = "returned"
          /\ ret'.err = NoErr
          /\ Cardinality(C33_ReturnedKeys(ret')) = Len(ret'.msgs)
          /\ C33_ReturnedKeys(ret') =
                {del[d].key : d \in {e \in DOMAIN del : C33_Closed(e) /\ C33_InNew(fs, e)}}
          /\ \A d \in DOMAIN del : C33_Closed(d) => ~C33_InNew(fs', d)

\* A closed delivery that has left new/ never comes back to it, so no later
\* call can return it.
C33_NeverBack ==
    \A d \in DOMAIN del :
       (C33_Closed(d) /\ ~C33_InNew(fs, d)) => (del'[d] = del[d] /\ ~C33_InNew(fs', d))

C33_Returned(d) == ret.op = "Unseen" /\ del[d].key \in C33_ReturnedKeys(ret)

\* Close returning nil has renamed the file into new/.
C33_Published ==
    \A d \in DOMAIN del :
       (~C33_Closed(d) /\ del'[d].kind = "delivery" /\ del'[d].pc = "done")
          => C33_InNew(fs', d)

C33_EventuallyReturned ==
    \A d \in Deliverers : (C33_Closed(d) /\ C33_InNew(fs, d)) ~> C33_Returned(d)

C33_ExactlyOnce ==
    /\ [][C33_UnseenStep]_vars
    /\ [][C33_NeverBack]_vars
    /\ [][C33_Published]_vars
    /\ C33_EventuallyReturned

\* Two deliveries have been closed; an earlier Unseen call returned the one
\* and the last call has returned the other alone.
C33_Witness ==
    \E d1, d2 \in DOMAIN del :
       /\ d1 # d2
       /\ C33_Closed(d1) /\ C33_Closed(d2)
       /\ Exists(fs, Path(Cur("A"), del[d1].key \o Info(<<>>)))
       /\ Exists(fs, Path(Cur("A"), del[d2].key \o Info(<<>>)))
       /\ ret.op = "Unseen"
       /\ C33_ReturnedKeys(ret) = {del[d2].key}

(***************************************************************************)
(* C34: for every Message handle the package returns, and after every      *)
(* successful SetFlags or MoveTo, parsing the base name of Filename()      *)
(* yields exactly (Key(), Flags()), whatever flag list the caller gave.    *)
(***************************************************************************)
C34_Consistent(m) ==
    LET p == parseBasename(m.filename.base) IN
    p.err = NoErr /\ p.key = m.key /\ p.flags = m.flags

\* The handle Create returned, while its writer is open or closed.
C34_Created(d) == del[d].kind = "create" /\ del[d].pc \in {"open", "done"}

C34_HandleConsistency ==
    /\ \A d \in DOMAIN del : C34_Created(d) => C34_Consistent(del[d].msg)
    /\ \A h \in DOMAIN handles : C34_Consistent(handles[h])

\* The handles built by newMessage, SetFlags, MoveTo and CopyTo take their
\* flags from parseBasename and are consistent; the handle of Create is
\* consistent when the caller's flags are distinct and none is ','.
C34_ConsistentButCreate ==
    /\ \A h \in DOMAIN handles : C34_Consistent(handles[h])
    /\ \A d \in DOMAIN del :
          (C34_Created(d) /\ del[d].msg.flags \in {<<>>, <<FlagFlagged, FlagSeen>>})
             => C34_Consistent(del[d].msg)

(***************************************************************************)
(* C35: promotion loses no message.  After Unseen returns nil, cur/ holds  *)
(* as many more files as new/ held entries that are not hidden, every      *)
(* content that was in new/ or cur/ is still in cur/, and the handles      *)
(* returned refer to pairwise distinct files.                              *)
(***************************************************************************)
C35_Contents(f, dir) == {f[dir][n] : n \in DOMAIN f[dir]}

C35_Post(mb) ==
    LET promoted == NotHidden(DOMAIN fs[New(mb)]) IN
    (ret'.outcome = "returned" /\ ret'.err = NoErr)
       => /\ Cardinality(DOMAIN fs'[Cur(mb)]) =
                Cardinality(DOMAIN fs[Cur(mb)]) + Cardinality(promoted)
          /\ C35_Contents(fs, Cur(mb)) \subseteq C35_Contents(fs', Cur(mb))
          /\ \A n \in promoted : fs[New(mb)][n] \in C35_Contents(fs', Cur(mb))
          /\ \A i, j \in 1..Len(ret'.msgs) :
                i # j => ret'.msgs[i].filename # ret'.msgs[j].filename

C35_PromotionLosesNothing == [][\A mb \in Mailboxes : Unseen(mb) => C35_Post(mb)]_vars

\* The same holds when the entries of new/ have distinct key parts and no
\* file of cur/ has the name <key>:2, of one of them.
C35_FreeTargets(mb) ==
    LET promoted == NotHidden(DOMAIN fs[New(mb)]) IN
    /\ \A n, m \in promoted : n # m => CutBefore(n) # CutBefore(m)
    /\ \A n \in promoted : ~Exists(fs, Path(Cur(mb), CutBefore(n) \o Info(<<>>)))

C35_LosesNothingOnFreeTargets ==
    [][\A mb \in Mailboxes : (Unseen(mb) /\ C35_FreeTargets(mb)) => C35_Post(mb)]_vars

(***************************************************************************)
(* C36: a Delivery is terminal after its first successful Close or Abort.  *)
(* A later Close or Abort returns the error of closing a closed file and   *)
(* changes nothing; an aborted delivery is never published and a published *)
(* one is never removed by its Delivery.                                   *)
(***************************************************************************)
C36_Terminal(d) == del[d].kind = "delivery" /\ del[d].pc \in {"done", "aborted"}

C36_Linked(f, ino) == \E dir \in DOMAIN f : \E n \in DOMAIN f[dir] : f[dir][n] = ino

C36_Published(f, d) ==
    \E dir \in {New(del[d].mb), Cur(del[d].mb)} :
       \E n \in DOMAIN f[dir] : f[dir][n] = del[d].ino

C36_LaterCall ==
    \A d \in DOMAIN del :
       (C36_Terminal(d) /\ (DeliveryCloseAgain(d) \/ DeliveryAbortAgain(d)))
          => /\ ret'.err = ErrClosed
             /\ ret'.d = d
             /\ fs' = fs /\ data' = data /\ age' = age
             /\ del' = del /\ handles' = handles

C36_Outcome ==
    \A d \in DOMAIN del :
       /\ (del[d].kind = "delivery" /\ del[d].pc = "aborted") => ~C36_Linked(fs, del[d].ino)
       /\ (del[d].kind = "delivery" /\ del[d].pc = "done") => C36_Published(fs, d)

C36_TerminalDelivery == []C36_Outcome /\ [][C36_LaterCall]_vars

\* Abort has just been called on a delivery that Close published: it returned
\* the error and the entry is still in new/; the other delivery was aborted.
C36_Witness ==
    /\ ret.op = "Delivery.Abort"
    /\ ret.err = ErrClosed
    /\ del[ret.d].pc = "done"
    /\ Exists(fs, Path(New(del[ret.d].mb), del[ret.d].key))
    /\ \E e \in DOMAIN del : del[e].pc = "aborted"

\* Close has just been called on an aborted delivery.
C36_WitnessCloseAfterAbort ==
    /\ ret.op = "Delivery.Close"
    /\ ret.err = ErrClosed
    /\ del[ret.d].pc = "aborted"

(***************************************************************************)
(* C37: two mutators hold handles to the same cur/ entry and call SetFlags *)
(* with different flag sets.  Exactly one call returns nil; the other      *)
(* returns an error and leaves its handle unchanged; afterwards one file   *)
(* carries the key, with the flags of the successful call and the content  *)
(* intact.                                                                 *)
(***************************************************************************)
C37_Obtained == newMessage(Cur("A"), StaleName).msg

\* The last call was SetFlags by h1 and returned nil, h2 still holds the
\* handle it obtained, and this step is SetFlags by h2 with another flag set.
C37_SecondCall(h1, h2) ==
    /\ h1 # h2
    /\ ret.op = "SetFlags" /\ ret.h = h1 /\ ret.err = NoErr
    /\ handles[h2] = C37_Obtained
    /\ ret'.op = "SetFlags" /\ ret'.h = h2
    /\ Range(ret'.flags) # Range(ret.flags)

C37_LoserFails(h1, h2) ==
    /\ ret'.outcome = "returned"
    /\ ret'.err # NoErr
    /\ handles'[h2] = handles[h2]
    /\ DOMAIN fs'[Cur("A")] = {StaleName \o ret.flags}
    /\ fs'[Cur("A")][StaleName \o ret.flags] = 1
    /\ data' = data

C37_ExactlyOneWins ==
    [][\A h1, h2 \in 1..MaxHandles : C37_SecondCall(h1, h2) => C37_LoserFails(h1, h2)]_vars

\* The same when the first call changed the flags of the entry.
C37_OneWinsAfterChange ==
    [][\A h1, h2 \in 1..MaxHandles :
          (C37_SecondCall(h1, h2) /\ ret.flags # C37_Obtained.flags)
             => C37_LoserFails(h1, h2)]_vars

(***************************************************************************)
(* C38: lookup precision.  A successful MessageByKey(k), k without the     *)
(* separator, returns a message whose Key() is k and whose base name       *)
(* begins with k and the separator: never an entry whose key only begins   *)
(* with k, and '*', '[' and ']' in k stand for themselves.                 *)
(***************************************************************************)
C38_Found == ret.op = "MessageByKey" /\ ret.outcome = "returned" /\ ret.err = NoErr

C38_WitnessStar ==
    /\ C38_Found
    /\ ret.key = KeyStar
    /\ Cardinality(DOMAIN fs[Cur("A")]) > 1

(***************************************************************************)
(* C39: whenever Dir.Init returns nil, the root and tmp/, new/ and cur/    *)
(* exist and are directories, whatever was there before, so that a         *)
(* following NewDelivery does not fail for lack of a subdirectory.         *)
(***************************************************************************)
C39_Structure(f, mb) == ({Root(mb)} \cup Subdirs(mb)) \subseteq DOMAIN f

C39_InitEstablishesStructure ==
    /\ [][(ret'.op = "Init" /\ del' = del /\ ret'.err = NoErr)
            => C39_Structure(fs', ret'.mb)]_vars
    /\ [][\A d \in DOMAIN del :
            (ret.op = "Init" /\ ret.err = NoErr /\ del[d].pc = "idle" /\ ret.mb = "A")
               => del'[d].pc # "failed"]_vars

\* Init makes the structure whenever no file that is not a directory has the
\* name of a subdirectory; when one has, Init still returns nil.
C39_NoFileInTheWay(f, mb) == DOMAIN f[Root(mb)] = {}

C39_StructureUnlessFile ==
    [][(ret'.op = "Init" /\ del' = del)
         => /\ ret'.err = NoErr
            /\ (Root(ret'.mb) \in DOMAIN fs /\ C39_NoFileInTheWay(fs, ret'.mb))
                  => C39_Structure(fs', ret'.mb)]_vars

(***************************************************************************)
(* C40: every chunked scan terminates.  For every readdirChunk from 0 to   *)
(* the number of files plus one, Walk, Unseen, UnseenCount, Clean and the  *)
(* lookup of a key that no file of cur/ carries each return after finitely *)
(* many reads, the lookup with KeyError of N = 0.                          *)
(***************************************************************************)
C40_Scans == {"Walk", "Unseen", "UnseenCount", "Clean", "MessageByKey"}

C40_Returns ==
    /\ ret.outcome = "returned"
    /\ (ret.op = "MessageByKey" /\ ~\E n \in DOMAIN fs[Cur(ret.mb)] :
                                      HasPrefix(n, ret.key \o <<separator>>))
          => ret.err = KeyError(ret.key, 0)

C40_ScansTerminate == (ret.op \in C40_Scans) => C40_Returns

\* With a readdirChunk of one or more every scan returns.
C40_TerminateOnPositiveChunk ==
    (ret.op \in C40_Scans /\ readdirChunk > 0) => C40_Returns

\* With readdirChunk 0 a scan that runs to the end of the directory never
\* returns; only a lookup that finds its key does.
C40_ZeroChunkSpins ==
    (ret.op \in C40_Scans /\ readdirChunk = 0)
       => \/ ret.outcome = "spinning"
          \/ ret.op = "MessageByKey" /\ ret.outcome = "returned" /\ ret.err = NoErr

=============================================================================
